---- MODULE Spec2Model ----
(***************************************************************************)
(* VoiceController (frontend/public/js/voice.js): the result aggregator,   *)
(* the command classifier with its dictation mode, the MRN / template      *)
(* field extractor and the recognizer life cycle, as a state machine.      *)
(*                                                                         *)
(* A JavaScript string is a sequence of one-character strings, so that     *)
(* trim, toLowerCase, join, includes, split and the regular expressions of *)
(* the source are computed character by character.                         *)
(***************************************************************************)
EXTENDS Integers, Sequences, FiniteSets, TLC

\* ------------------------------------------------------------------------
\* Characters and strings
\* ------------------------------------------------------------------------

UpperS == << "A","B","C","D","E","F","G","H","I","J","K","L","M",
             "N","O","P","Q","R","S","T","U","V","W","X","Y","Z" >>

LowerS == << "a","b","c","d","e","f","g","h","i","j","k","l","m",
             "n","o","p","q","r","s","t","u","v","w","x","y","z" >>

UpperCh == { UpperS[i] : i \in 1..26 }

LowerCh == { LowerS[i] : i \in 1..26 }

DigitCh == { "0","1","2","3","4","5","6","7","8","9" }

\* \s of the regular expressions and the white space String.prototype.trim strips
SpaceCh == { " ", "\t", "\n" }

\* \w of the regular expressions
WordCh == UpperCh \cup LowerCh \cup DigitCh \cup { "_" }

\* the . of the regular expressions (no s flag): any character but a line end
DotCh == WordCh \cup { " ", "\t", "-", "'", ".", "," }

\* String.prototype.toLowerCase, one character
LowerOf(c) == IF c \in UpperCh
              THEN LowerS[CHOOSE i \in 1..26 : UpperS[i] = c]
              ELSE c

\* String.prototype.toUpperCase, one character
UpperOf(c) == IF c \in LowerCh
              THEN UpperS[CHOOSE i \in 1..26 : LowerS[i] = c]
              ELSE c

toLowerCase(s) == [i \in 1..Len(s) |-> LowerOf(s[i])]

toUpperCase(s) == [i \in 1..Len(s) |-> UpperOf(s[i])]

RECURSIVE TrimLeft(_)
TrimLeft(s) == IF s # << >> /\ Head(s) \in SpaceCh THEN TrimLeft(Tail(s)) ELSE s

RECURSIVE TrimRight(_)
TrimRight(s) == IF s # << >> /\ s[Len(s)] \in SpaceCh
                THEN TrimRight(SubSeq(s, 1, Len(s) - 1))
                ELSE s

\* String.prototype.trim
trim(s) == TrimRight(TrimLeft(s))

\* Array.prototype.join(' ')
RECURSIVE join(_)
join(segs) == IF segs = << >> THEN << >>
              ELSE IF Len(segs) = 1 THEN segs[1]
              ELSE segs[1] \o << " " >> \o join(Tail(segs))

\* a += (a ? ' ' : '') + b
AppendSp(a, b) == a \o (IF a # << >> THEN << " " >> ELSE << >>) \o b

\* String.prototype.includes
includes(s, t) == \E i \in 0..(Len(s) - Len(t)) : SubSeq(s, i + 1, i + Len(t)) = t

\* ------------------------------------------------------------------------
\* Regular expressions: a backtracking matcher in the priority order of the
\* ECMAScript semantics.  A match state is [p |-> characters consumed,
\* g |-> text of capture group 1]; Run returns the match states a pattern
\* can end in, in the order backtracking tries them.
\* ------------------------------------------------------------------------

Lit(str)  == [k |-> "lit", s |-> str]

Cls(set)  == [k |-> "cls", c |-> set]

WB        == [k |-> "wb"]

Cat(ps)   == [k |-> "cat", r |-> ps]

Alt(ps)   == [k |-> "alt", r |-> ps]

Opt(re)   == [k |-> "opt", r |-> re]

Star(re)  == [k |-> "star", r |-> re]

Plus(re)  == Cat(<< re, Star(re) >>)

Grp(re)   == [k |-> "grp", r |-> re]

\* \b at offset p: exactly one of the two neighbouring characters is a \w
AtBoundary(s, p) ==
    LET before == p >= 1 /\ s[p] \in WordCh
        after  == p < Len(s) /\ s[p + 1] \in WordCh
    IN  before # after

SameCh(a, b, ci) == IF ci THEN LowerOf(a) = LowerOf(b) ELSE a = b

LitAt(s, p, str, ci) ==
    /\ p + Len(str) <= Len(s)
    /\ \A i \in 1..Len(str) : SameCh(s[p + i], str[i], ci)

ClsAt(s, p, set, ci) ==
    /\ p < Len(s)
    /\ \/ s[p + 1] \in set
       \/ ci /\ (LowerOf(s[p + 1]) \in set \/ UpperOf(s[p + 1]) \in set)

RECURSIVE Run(_, _, _, _)
RECURSIVE FlatRun(_, _, _, _)
RECURSIVE RunCat(_, _, _, _)
RECURSIVE RunAlt(_, _, _, _)

FlatRun(re, s, ci, sts) ==
    IF sts = << >> THEN << >>
    ELSE Run(re, s, ci, Head(sts)) \o FlatRun(re, s, ci, Tail(sts))

RunCat(ps, s, ci, sts) ==
    IF ps = << >> \/ sts = << >> THEN sts
    ELSE RunCat(Tail(ps), s, ci, FlatRun(Head(ps), s, ci, sts))

RunAlt(ps, s, ci, st) ==
    IF ps = << >> THEN << >>
    ELSE Run(Head(ps), s, ci, st) \o RunAlt(Tail(ps), s, ci, st)

Run(re, s, ci, st) ==
    CASE re.k = "lit"  -> IF LitAt(s, st.p, re.s, ci)
                          THEN << [st EXCEPT !.p = st.p + Len(re.s)] >>
                          ELSE << >>
      [] re.k = "cls"  -> IF ClsAt(s, st.p, re.c, ci)
                          THEN << [st EXCEPT !.p = st.p + 1] >>
                          ELSE << >>
      [] re.k = "wb"   -> IF AtBoundary(s, st.p) THEN << st >> ELSE << >>
      [] re.k = "cat"  -> RunCat(re.r, s, ci, << st >>)
      [] re.k = "alt"  -> RunAlt(re.r, s, ci, st)
      [] re.k = "opt"  -> Run(re.r, s, ci, st) \o << st >>
      [] re.k = "star" -> LET once == SelectSeq(Run(re.r, s, ci, st),
                                                LAMBDA t : t.p > st.p)
                          IN  FlatRun(re, s, ci, once) \o << st >>
      [] re.k = "grp"  -> LET inner == Run(re.r, s, ci, st)
                          IN  [i \in 1..Len(inner) |->
                                 [inner[i] EXCEPT !.g = SubSeq(s, st.p + 1, inner[i].p)]]

\* the match state backtracking reaches first, if any: << >> or << state >>
First(sts) == IF sts = << >> THEN << >> ELSE << sts[1] >>

\* the match of re that starts at offset p, if any: << >> or << state >>
MatchAt(re, s, ci, p) == First(Run(re, s, ci, [p |-> p, g |-> << >>]))

\* RegExp.prototype.test
Test(re, s, ci) == \E p \in 0..Len(s) : MatchAt(re, s, ci, p) # << >>

\* String.prototype.match without the g flag: << >> (null) or
\* << [m0 |-> whole match, m1 |-> capture group 1] >> of the leftmost match
MatchResult(s, p, m, later) ==
    IF m # << >> THEN << [m0 |-> SubSeq(s, p + 1, m[1].p), m1 |-> m[1].g] >> ELSE later

RECURSIVE MatchFrom(_, _, _, _)
MatchFrom(re, s, ci, p) ==
    IF p > Len(s) THEN << >>
    ELSE MatchResult(s, p, MatchAt(re, s, ci, p), MatchFrom(re, s, ci, p + 1))

Match(re, s, ci) == MatchFrom(re, s, ci, 0)

\* String.prototype.replace with a g-flagged pattern and a literal replacement
RECURSIVE ReplaceFrom(_, _, _, _, _)
ReplaceFrom(re, s, ci, rep, p) ==
    IF p >= Len(s) THEN << >>
    ELSE LET m == MatchAt(re, s, ci, p)
         IN  IF m # << >> /\ m[1].p > p
             THEN rep \o ReplaceFrom(re, s, ci, rep, m[1].p)
             ELSE << s[p + 1] >> \o ReplaceFrom(re, s, ci, rep, p + 1)

ReplaceAll(re, s, ci, rep) == ReplaceFrom(re, s, ci, rep, 0)

\* String.prototype.split(/\s+/): the maximal runs of non-space characters;
\* a leading or trailing separator yields an empty first or last piece
RECURSIVE SplitFrom(_, _, _)
SplitFrom(s, p, cur) ==
    IF p > Len(s) THEN << cur >>
    ELSE IF s[p] \in SpaceCh
         THEN IF p > 1 /\ s[p - 1] \in SpaceCh
              THEN SplitFrom(s, p + 1, cur)
              ELSE << cur >> \o SplitFrom(s, p + 1, << >>)
         ELSE SplitFrom(s, p + 1, Append(cur, s[p]))

splitWs(s) == SplitFrom(s, 1, << >>)

\* ------------------------------------------------------------------------
\* The words of the source's patterns, as strings
\* ------------------------------------------------------------------------

s_note == << "n", "o", "t", "e" >>

s_create == << "c", "r", "e", "a", "t", "e" >>

s_disconnect == << "d", "i", "s", "c", "o", "n", "n", "e", "c", "t" >>

s_connect == << "c", "o", "n", "n", "e", "c", "t" >>

s_unmute == << "u", "n", "m", "u", "t", "e" >>

s_mute == << "m", "u", "t", "e" >>

s_mic == << "m", "i", "c" >>

s_rophone == << "r", "o", "p", "h", "o", "n", "e" >>

s_start == << "s", "t", "a", "r", "t" >>

s_stop == << "s", "t", "o", "p" >>

s_stream == << "s", "t", "r", "e", "a", "m" >>

s_video == << "v", "i", "d", "e", "o" >>

s_camera == << "c", "a", "m", "e", "r", "a" >>

s_hide == << "h", "i", "d", "e" >>

s_show == << "s", "h", "o", "w" >>

s_preview == << "p", "r", "e", "v", "i", "e", "w" >>

s_send == << "s", "e", "n", "d" >>

s_urgent == << "u", "r", "g", "e", "n", "t" >>

s_message == << "m", "e", "s", "s", "a", "g", "e" >>

s_alert == << "a", "l", "e", "r", "t" >>

s_consultation == << "c", "o", "n", "s", "u", "l", "t", "a", "t", "i", "o", "n" >>

s_consult == << "c", "o", "n", "s", "u", "l", "t" >>

s_soap == << "s", "o", "a", "p" >>

s_progress == << "p", "r", "o", "g", "r", "e", "s", "s" >>

s_notes == << "n", "o", "t", "e", "s" >>

s_form == << "f", "o", "r", "m" >>

s_number == << "n", "u", "m", "b", "e", "r" >>

s_patient == << "p", "a", "t", "i", "e", "n", "t" >>

s_is == << "i", "s" >>

s_the == << "t", "h", "e" >>

s_sp_the == << " ", "t", "h", "e" >>

s_sp_an == << " ", "a", "n" >>

s_MRN == << "M", "R", "N" >>

s_MRNAB == << "M", "R", "N", "A", "B" >>

\* the value of a JavaScript null, undefined or '' in a truthiness test
NULL == << >>

\* ------------------------------------------------------------------------
\* Command classifier: VoiceController._parseCommand
\* ------------------------------------------------------------------------

Sp == Lit(<< " " >>)

Ws1 == Plus(Cls(SpaceCh))

Ws0 == Star(Cls(SpaceCh))

\* /\bnote\b/
reNote == Cat(<< WB, Lit(s_note), WB >>)

\* /\bcreate\b/
reCreate == Cat(<< WB, Lit(s_create), WB >>)

\* /\bdisconnect\b/
reDisconnect == Cat(<< WB, Lit(s_disconnect), WB >>)

\* /\bconnect\b/
reConnect == Cat(<< WB, Lit(s_connect), WB >>)

\* (\s+mic(rophone)?)?
reMicTail == Opt(Cat(<< Ws1, Lit(s_mic), Opt(Lit(s_rophone)) >>))

\* /\bunmute(\s+mic(rophone)?)?\b/
reUnmute == Cat(<< WB, Lit(s_unmute), reMicTail, WB >>)

\* /\bmute(\s+mic(rophone)?)?\b/
reMute == Cat(<< WB, Lit(s_mute), reMicTail, WB >>)

\* (stream|video|camera)
reStreamWord == Alt(<< Lit(s_stream), Lit(s_video), Lit(s_camera) >>)

\* (video|camera|preview)
reVideoWord == Alt(<< Lit(s_video), Lit(s_camera), Lit(s_preview) >>)

\* /\bstart( the)? (stream|video|camera)\b/
reStartStream == Cat(<< WB, Lit(s_start), Opt(Lit(s_sp_the)), Sp, reStreamWord, WB >>)

\* /\bstop( the)? (stream|video|camera)\b/
reStopStream == Cat(<< WB, Lit(s_stop), Opt(Lit(s_sp_the)), Sp, reStreamWord, WB >>)

\* /\bhide( the)? (video|camera|preview)?\b/
reHide == Cat(<< WB, Lit(s_hide), Opt(Lit(s_sp_the)), Sp, Opt(reVideoWord), WB >>)

\* /\bshow( the)? (video|camera|preview)?\b/
reShow == Cat(<< WB, Lit(s_show), Opt(Lit(s_sp_the)), Sp, Opt(reVideoWord), WB >>)

\* /\bsend( an)? urgent (message|alert)\b/
reSendUrgent == Cat(<< WB, Lit(s_send), Opt(Lit(s_sp_an)), Sp, Lit(s_urgent), Sp,
                       Alt(<< Lit(s_message), Lit(s_alert) >>), WB >>)

\* /\burgent\b.*\bmessage\b/
reUrgentMessage == Cat(<< WB, Lit(s_urgent), WB, Star(Cls(DotCh)), WB, Lit(s_message), WB >>)

\* mutant: mute is tested before unmute and connect before disconnect
BuiltinRules_Swapped == <<
    [re |-> reNote,          action |-> "start_note",   rule |-> "note"],
    [re |-> reCreate,        action |-> "stop_note",    rule |-> "create"],
    [re |-> reConnect,       action |-> "connect",      rule |-> "connect"],
    [re |-> reDisconnect,    action |-> "disconnect",   rule |-> "disconnect"],
    [re |-> reMute,          action |-> "mute",         rule |-> "mute"],
    [re |-> reUnmute,        action |-> "unmute",       rule |-> "unmute"],
    [re |-> reStartStream,   action |-> "start_stream", rule |-> "start_stream"],
    [re |-> reStopStream,    action |-> "stop_stream",  rule |-> "stop_stream"],
    [re |-> reHide,          action |-> "hide_video",   rule |-> "hide"],
    [re |-> reShow,          action |-> "show_video",   rule |-> "show"],
    [re |-> reSendUrgent,    action |-> "urgent",       rule |-> "send_urgent"],
    [re |-> reUrgentMessage, action |-> "urgent",       rule |-> "urgent_message"] >>

\* the built-in rules of _parseCommand in the order the source tests them
BuiltinRules == <<
    [re |-> reNote,          action |-> "start_note",   rule |-> "note"],
    [re |-> reCreate,        action |-> "stop_note",    rule |-> "create"],
    [re |-> reDisconnect,    action |-> "disconnect",   rule |-> "disconnect"],
    [re |-> reConnect,       action |-> "connect",      rule |-> "connect"],
    [re |-> reUnmute,        action |-> "unmute",       rule |-> "unmute"],
    [re |-> reMute,          action |-> "mute",         rule |-> "mute"],
    [re |-> reStartStream,   action |-> "start_stream", rule |-> "start_stream"],
    [re |-> reStopStream,    action |-> "stop_stream",  rule |-> "stop_stream"],
    [re |-> reHide,          action |-> "hide_video",   rule |-> "hide"],
    [re |-> reShow,          action |-> "show_video",   rule |-> "show"],
    [re |-> reSendUrgent,    action |-> "urgent",       rule |-> "send_urgent"],
    [re |-> reUrgentMessage, action |-> "urgent",       rule |-> "urgent_message"] >>

\* "no command": the null _parseCommand returns
NoCommand == [action |-> "", rule |-> ""]

\* the first rule of rs whose pattern tests true on text
RECURSIVE FirstRule(_, _)
FirstRule(rs, text) ==
    IF rs = << >> THEN NoCommand
    ELSE IF Test(Head(rs).re, text, FALSE)
         THEN [action |-> Head(rs).action, rule |-> Head(rs).rule]
         ELSE FirstRule(Tail(rs), text)

\* mutant: the custom overrides are tested after the built-in rules
CommandRules_BuiltinsFirst(cm) ==
    BuiltinRules \o
    [i \in 1..Len(cm) |-> [re |-> cm[i].re, action |-> cm[i].action, rule |-> "custom"]]

\* the rule list _parseCommand walks: the custom overrides, then the built-ins
CommandRules(cm) ==
    [i \in 1..Len(cm) |-> [re |-> cm[i].re, action |-> cm[i].action, rule |-> "custom"]]
    \o BuiltinRules

\* _parseCommand(s) without its calls of _emitStartNote / _emitStopNote, which
\* the caller applies for the rules "note" and "create": the action returned
\* and the rule that returned it
parseCommand(s, cm) ==
    LET text == trim(toLowerCase(s))
    IN  IF text = << >> THEN NoCommand ELSE FirstRule(CommandRules(cm), text)

\* ------------------------------------------------------------------------
\* Field extractor: VoiceController._detectMRN
\* ------------------------------------------------------------------------

HySp == Cls(SpaceCh \cup { "-" })

\* [A-Z]{2,}
reLetters2 == Cat(<< Cls(UpperCh), Cls(UpperCh), Star(Cls(UpperCh)) >>)

\* \d+
reDigits1 == Plus(Cls(DigitCh))

\* \d{3,}
reDigits3 == Cat(<< Cls(DigitCh), Cls(DigitCh), Cls(DigitCh), Star(Cls(DigitCh)) >>)

\* Pattern 1: /\bMRN[-\s]*([A-Z]{2,}[-\s]*\d+)\b/i
reMRN1 == Cat(<< WB, Lit(s_MRN), Star(HySp),
                 Grp(Cat(<< reLetters2, Star(HySp), reDigits1 >>)), WB >>)

\* Pattern 2: /\bMRN\s+(?:number\s+)?(\d+)\b/i
reMRN2 == Cat(<< WB, Lit(s_MRN), Ws1, Opt(Cat(<< Lit(s_number), Ws1 >>)),
                 Grp(reDigits1), WB >>)

\* Pattern 3: /\bpatient'?s?\s+MRN\s+(?:is\s+)?([A-Z]{2,}\d+)\b/i
reMRN3 == Cat(<< WB, Lit(s_patient), Opt(Lit(<< "'" >>)), Opt(Lit(<< "s" >>)), Ws1,
                 Lit(s_MRN), Ws1, Opt(Cat(<< Lit(s_is), Ws1 >>)),
                 Grp(Cat(<< reLetters2, reDigits1 >>)), WB >>)

\* Pattern 4: /\b[Mm]\s*[Rr]\s*[Nn]\s+([A-Z]{2,}\s*\d+|\d+)\b/
reMRN4 == Cat(<< WB, Cls({ "M", "m" }), Ws0, Cls({ "R", "r" }), Ws0, Cls({ "N", "n" }), Ws1,
                 Grp(Alt(<< Cat(<< reLetters2, Ws0, reDigits1 >>), reDigits1 >>)), WB >>)

\* mutant: pattern 5 without its letters
reMRN5_NoLetters == Cat(<< WB, Grp(reDigits3), WB >>)

\* Pattern 5: /\b([A-Z]{2,}\d{3,})\b/
reMRN5 == Cat(<< WB, Grp(Cat(<< reLetters2, reDigits3 >>)), WB >>)

\* the patterns array, with the i flag of each
MRNPatterns == << [re |-> reMRN1, ci |-> TRUE],
                  [re |-> reMRN2, ci |-> TRUE],
                  [re |-> reMRN3, ci |-> TRUE],
                  [re |-> reMRN4, ci |-> FALSE],
                  [re |-> reMRN5, ci |-> FALSE] >>

\* mutant: the hyphens of the capture are kept
normalizeMRN_KeepHyphen(cap) ==
    LET bare == toUpperCase(SelectSeq(cap, LAMBDA c : c \notin SpaceCh))
    IN  IF bare # << >> /\ \A i \in 1..Len(bare) : bare[i] \in DigitCh
        THEN s_MRNAB \o bare
        ELSE bare

\* match[1].replace(/\s+/g, '').replace(/-/g, '').toUpperCase(), then the
\* MRNAB prefix of an all-digit value
normalizeMRN(cap) ==
    LET bare == toUpperCase(SelectSeq(cap, LAMBDA c : c \notin SpaceCh /\ c # "-"))
    IN  IF bare # << >> /\ \A i \in 1..Len(bare) : bare[i] \in DigitCh
        THEN s_MRNAB \o bare
        ELSE bare

\* /[A-Z]/.test(mrn) && /\d/.test(mrn)
looksLikeMRN(mrn) ==
    /\ \E i \in 1..Len(mrn) : mrn[i] \in UpperCh
    /\ \E i \in 1..Len(mrn) : mrn[i] \in DigitCh

\* the body of the for loop of _detectMRN for the match m of one pattern: the
\* MRN it returns, or the value of the later patterns when it returns none
mrnOf(m, later) ==
    IF m # << >> /\ m[1].m1 # << >> /\ looksLikeMRN(normalizeMRN(m[1].m1))
    THEN normalizeMRN(m[1].m1)
    ELSE later

\* the for loop of _detectMRN over the patterns from index i
RECURSIVE detectMRNFrom(_, _)
detectMRNFrom(text, i) ==
    IF i > Len(MRNPatterns) THEN NULL
    ELSE mrnOf(Match(MRNPatterns[i].re, text, MRNPatterns[i].ci),
               detectMRNFrom(text, i + 1))

\* _detectMRN(text)
detectMRN(text) == IF text = << >> THEN NULL ELSE detectMRNFrom(text, 1)

\* ------------------------------------------------------------------------
\* Field extractor: VoiceController._detectTemplate
\* ------------------------------------------------------------------------

\* the normalize closure: four g/i replacements in sequence
normalize(str) ==
    LET r1 == ReplaceAll(Cat(<< WB, Alt(<< Lit(s_consultation), Lit(s_consult) >>), WB >>),
                         str, TRUE, s_consultation)
        r2 == ReplaceAll(Cat(<< WB, Lit(s_soap), WB >>), r1, TRUE, s_soap)
        r3 == ReplaceAll(Cat(<< WB, Lit(s_progress), WB >>), r2, TRUE, s_progress)
        r4 == ReplaceAll(Cat(<< WB, Alt(<< Lit(s_note), Lit(s_notes) >>), WB >>),
                         r3, TRUE, s_note)
    IN  r4

\* normalizedTemplate.split(/\s+/).filter(w => w.length > 3 && !['form','note','the'].includes(w))
templateWords(normalizedTemplate) ==
    SelectSeq(splitWs(normalizedTemplate),
              LAMBDA w : Len(w) > 3 /\ w \notin { s_form, s_note, s_the })

\* mutant: one matched word is enough
ratioOK_AnyWord(matched, total) == matched >= 1

\* matchRatio >= 0.7, with matchRatio = matched / total
ratioOK(matched, total) == 10 * matched >= 7 * total

\* the two phrases of the "special case": first and last word, first two words
templatePhrases(tw) ==
    << tw[1] \o << " " >> \o tw[Len(tw)],
       join(SubSeq(tw, 1, IF Len(tw) < 2 THEN Len(tw) ELSE 2)) >>

\* one iteration of the loop over the templates: does the template whose
\* normalized name is normalizedTemplate match
templateMatches(normalizedText, normalizedTemplate) ==
    LET tw      == templateWords(normalizedTemplate)
        matched == Len(SelectSeq(tw, LAMBDA w : includes(normalizedText, w)))
        phrases == templatePhrases(tw)
    IN  \/ includes(normalizedText, normalizedTemplate)
        \/ /\ tw # << >>
           /\ \/ ratioOK(matched, Len(tw))
              \/ \E i \in 1..2 : Len(phrases[i]) > 5 /\ includes(normalizedText, phrases[i])

\* mutant: the last matching template of the list is returned
detectTemplateFrom_Last(normalizedText, templates, i) ==
    LET hits == { j \in i..Len(templates) :
                    templateMatches(normalizedText, normalize(toLowerCase(templates[j]))) }
    IN  IF hits = { } THEN NULL
        ELSE templates[CHOOSE j \in hits : \A k \in hits : k <= j]

RECURSIVE detectTemplateFrom(_, _, _)
detectTemplateFrom(normalizedText, templates, i) ==
    IF i > Len(templates) THEN NULL
    ELSE IF templateMatches(normalizedText, normalize(toLowerCase(templates[i])))
         THEN templates[i]
    ELSE detectTemplateFrom(normalizedText, templates, i + 1)

\* mutant: a built-in list stands in for a list that was not supplied
detectTemplate_BuiltinList(text, templates) ==
    IF text = << >> THEN NULL
    ELSE detectTemplateFrom(normalize(toLowerCase(text)),
                            IF templates = << >> THEN << s_soap \o << " " >> \o s_note >>
                            ELSE templates, 1)

\* _detectTemplate(text) with this._availableTemplates = templates
detectTemplate(text, templates) ==
    IF text = << >> \/ templates = << >> THEN NULL
    ELSE detectTemplateFrom(normalize(toLowerCase(text)), templates, 1)

\* ------------------------------------------------------------------------
\* Bounds of the model and the inputs of the environment
\* ------------------------------------------------------------------------

\* slots a recognizer keeps in one result list
MaxSlots == 2

\* recognizer objects _setup() may create in one run
MaxRecs == 2

\* result events the recognizers deliver in one run
MaxResults == 3

\* Date.now() when the controller is constructed
StartNow == 1000

\* time that passes in one Tick
TickMs == 400

\* last value of Date.now() the model follows
MaxNow == 1800

\* the default of opts.partialThrottleMs
partialThrottleMs == 800

u_Hi == << " ", "H", "i" >>

u_yo == << "y", "o" >>

u_blank == << " " >>

u_mute == << "M", "u", "t", "e" >>

u_MRN_AB1 == << "M", "R", "N", " ", "A", "B", "1" >>

u_AB1 == << "A", "B", "1" >>

u_MRN_7 == << "M", "R", "N", " ", "7" >>

u_SOAP_Note == << "S", "O", "A", "P", " ", "N", "o", "t", "e" >>

u_Progress_Note == << "P", "r", "o", "g", "r", "e", "s", "s", " ", "N", "o", "t", "e" >>

u_MRNAB7 == s_MRNAB \o << "7" >>

u_MRN_AB1_soap == u_MRN_AB1 \o << " " >> \o s_soap

u_MRN_7_progress == u_MRN_7 \o << " " >> \o s_progress

\* the error codes of the recognizer the model follows: the four that
\* _onError lists as recoverable and one it does not
ErrorCodes == { "no-speech", "aborted", "audio-capture", "network", "not-allowed" }

\* The environments the model runs in.  Each is a browser and a host
\* application: whether the browser has a SpeechRecognition constructor (SR),
\* the transcripts its recognizer produces (texts), the errors it raises
\* (errors), the last Date.now() followed (maxNow), the template lists the
\* host application supplies (lists) and the methods of the controller it
\* calls (calls).
HostDictation ==
    [SR |-> TRUE, texts |-> { u_Hi, u_yo, u_blank }, errors |-> { }, maxNow |-> MaxNow,
     lists |-> { }, calls |-> { "start", "stop" },
     customMap |-> << >>]

HostNotes ==
    [SR |-> TRUE, texts |-> { s_note, u_mute, s_create }, errors |-> { }, maxNow |-> StartNow,
     lists |-> { }, calls |-> { "start", "stop" },
     customMap |-> << >>]

HostRelease ==
    [SR |-> TRUE, texts |-> { s_note }, errors |-> { }, maxNow |-> StartNow,
     lists |-> { }, calls |-> { "start", "stop", "destroy" },
     customMap |-> << >>]

HostFields ==
    [SR |-> TRUE, texts |-> { u_MRN_AB1, s_soap, u_yo }, errors |-> { }, maxNow |-> StartNow,
     lists |-> { << u_SOAP_Note >> }, calls |-> { "start", "setTemplates", "resetDetection" },
     customMap |-> << >>]

HostRevisions ==
    [SR |-> TRUE, texts |-> { u_MRN_AB1_soap, u_MRN_7_progress }, errors |-> { },
     maxNow |-> StartNow, lists |-> { << u_SOAP_Note, u_Progress_Note >> },
     calls |-> { "start", "resetDetection" },
     customMap |-> << >>]

w_Consultation == << "C" >> \o Tail(s_consultation)

w_cardiology == << "c", "a", "r", "d", "i", "o", "l", "o", "g", "y" >>

w_summary == << "s", "u", "m", "m", "a", "r", "y" >>

u_Consultation_Note_Form ==
    w_Consultation \o << " ", "N", "o", "t", "e", " ", "F", "o", "r", "m" >>

u_Cardiology_Progress_Summary ==
    << "C" >> \o Tail(w_cardiology) \o << " ", "P" >> \o Tail(s_progress)
    \o << " ", "S" >> \o Tail(w_summary)

\* a host application that supplies template lists at run time
HostTemplateLists ==
    [SR |-> FALSE, texts |-> { }, errors |-> { }, maxNow |-> StartNow,
     lists |-> { << u_Consultation_Note_Form >>,
                 << u_Cardiology_Progress_Summary >>,
                 << u_Cardiology_Progress_Summary, u_Progress_Note >>,
                 << u_Progress_Note, u_Cardiology_Progress_Summary >>,
                 << u_Consultation_Note_Form, u_SOAP_Note, u_Progress_Note >> },
     calls |-> { "setTemplates" },
     customMap |-> << >>]

u_MRN_7_note == u_MRN_7 \o << " " >> \o s_note

\* a dictation in which the fields are spoken in commands and inside a note
HostFieldsInNotes ==
    [SR |-> TRUE, texts |-> { u_MRN_AB1_soap, u_MRN_7_note }, errors |-> { },
     maxNow |-> StartNow, lists |-> { << u_SOAP_Note >> }, calls |-> { "start", "stop" },
     customMap |-> << >>]

u_urgent_note == s_urgent \o << " " >> \o s_note

u_mute_and_take_a_note ==
    s_mute \o << " ", "a", "n", "d", " ", "t", "a", "k", "e", " ", "a", " " >> \o s_note

\* /\burgent\b/
reUrgent == Cat(<< WB, Lit(s_urgent), WB >>)

\* a caller that overrides the phrases with 'urgent' by an action of its own
HostOverrides ==
    [SR |-> TRUE, texts |-> { u_urgent_note, u_mute_and_take_a_note }, errors |-> { },
     maxNow |-> StartNow, lists |-> { }, calls |-> { "start", "stop" },
     customMap |-> << [re |-> reUrgent, action |-> "page_doctor"] >>]

HostErrors ==
    [SR |-> TRUE, texts |-> { u_yo }, errors |-> ErrorCodes, maxNow |-> StartNow,
     lists |-> { }, calls |-> { "start", "stop" },
     customMap |-> << >>]

HostNoSpeechAPI ==
    [SR |-> FALSE, texts |-> { }, errors |-> { }, maxNow |-> StartNow,
     lists |-> { }, calls |-> { "start", "stop", "destroy" },
     customMap |-> << >>]

Hosts == { HostDictation, HostNotes, HostRelease, HostFields, HostRevisions, HostErrors,
           HostNoSpeechAPI, HostTemplateLists, HostFieldsInNotes, HostOverrides }

\* const recoverable = [...]
recoverable == { "no-speech", "aborted", "audio-capture", "network" }

\* ------------------------------------------------------------------------
\* State
\* ------------------------------------------------------------------------

\* ------------------------------------------------------------------------
\* scribe-storage.js: STORAGE_KEYS
\* ------------------------------------------------------------------------

CURRENT_MRN == "scribe_current_mrn"

CURRENT_TEMPLATE == "scribe_current_template"

CURRENT_TRANSCRIPT == "scribe_current_transcript"

SESSION_DATA == "scribe_session_data"

\* Object.values(STORAGE_KEYS), in the order of the literal
KeyOrder == << CURRENT_MRN, CURRENT_TEMPLATE, CURRENT_TRANSCRIPT, SESSION_DATA >>

STORAGE_KEYS == { KeyOrder[i] : i \in 1..Len(KeyOrder) }

VARIABLES
    host,               \* the environment (see Hosts)
    SR,                 \* this._SR: the SpeechRecognition constructor exists
    customMap,          \* this._customMap
    rec,                \* this._rec: index into recs, 0 for null
    recs,               \* the recognizer objects created so far
    listening,          \* this._listening
    lastPartialAt,      \* this._lastPartialAt
    noteMode,           \* this._noteMode
    noteBuffer,         \* this._noteBuffer
    fullTranscript,     \* this._fullTranscript
    detectedMRN,        \* this._detectedMRN
    detectedTemplate,   \* this._detectedTemplate
    availableTemplates, \* this._availableTemplates
    loadPending,        \* the promise of _loadTemplatesFromAPI is not settled
    now,                \* Date.now()
    op,                 \* the operation or handler that ran last
    out,                \* the host callbacks it fired, in order
    recCalls,           \* the methods it called on recognizers, in order
    chunk,              \* finalTxt of the last _onResult ('' when none)
    interim,            \* latestInterim of the last _onResult
    finals,             \* the slots finalized since the last resetDetection
    nResults,           \* the result events delivered so far
    arg,                \* the argument of the function a function specification applies
    ret,                \* the value the last operation or function returned
    localStorage,       \* window.localStorage: the item of each key of STORAGE_KEYS
    fault,              \* the localStorage calls that threw during the last operation
    threw               \* the last ScribeStorage operation threw to its caller

ctl == << rec, listening, lastPartialAt, noteMode, noteBuffer, fullTranscript,
          detectedMRN, detectedTemplate, availableTemplates >>

sto == << localStorage, fault, threw >>

vars == << host, SR, customMap, rec, recs, listening, lastPartialAt, noteMode,
           noteBuffer, fullTranscript, detectedMRN, detectedTemplate,
           availableTemplates, loadPending, now, op, out, recCalls, chunk, interim,
           finals, nResults, arg, ret, localStorage, fault, threw >>

\* ------------------------------------------------------------------------
\* Host callbacks, as entries of out
\* ------------------------------------------------------------------------

Ev(cb, act, txt, fin, mrn, tpl) ==
    [cb |-> cb, act |-> act, txt |-> txt, fin |-> fin, mrn |-> mrn, tpl |-> tpl]

\* this.onTranscript(text, isFinal)
TranscriptEv(text, isFinal) == Ev("onTranscript", "", text, isFinal, NULL, NULL)

\* this.onCommand(action, rawText)
CommandEv(action, rawText) == Ev("onCommand", action, rawText, FALSE, NULL, NULL)

\* this.onListenStateChange(isListening)
ListenEv(isListening) == Ev("onListenStateChange", "", << >>, isListening, NULL, NULL)

\* this.onError(code)
ErrorEv(code) == Ev("onError", code, << >>, FALSE, NULL, NULL)

\* this.onMRNTemplateDetected({mrn, template, text})
DetectedEv(mrn, tpl, text) == Ev("onMRNTemplateDetected", "", text, FALSE, mrn, tpl)

Count(evs, P(_)) == Len(SelectSeq(evs, P))

\* ------------------------------------------------------------------------
\* Initial state: VoiceController.constructor
\* ------------------------------------------------------------------------

Init ==
    /\ host \in Hosts
    /\ SR = host.SR
    /\ customMap = host.customMap
    /\ rec = 0
    /\ recs = << >>
    /\ listening = FALSE
    /\ lastPartialAt = 0
    /\ noteMode = FALSE
    /\ noteBuffer = << >>
    /\ fullTranscript = << >>
    /\ detectedMRN = NULL
    /\ detectedTemplate = NULL
    /\ availableTemplates = << >>
    /\ loadPending = TRUE
    /\ now = StartNow
    /\ op = "constructor"
    /\ out = << >>
    /\ recCalls = << >>
    /\ chunk = << >>
    /\ interim = << >>
    /\ finals = << >>
    /\ nResults = 0
    /\ arg = << >>
    /\ ret = NoCommand
    /\ localStorage = [key \in STORAGE_KEYS |-> NULL]
    /\ fault = { }
    /\ threw = FALSE

\* ------------------------------------------------------------------------
\* Note mode: _emitStartNote, _emitStopNote
\* ------------------------------------------------------------------------

\* mutant: a classification without a note rule enters note mode
NoFx_EntersNote(nm, nb) == [nm |-> TRUE, nb |-> nb, ev |-> << >>]

\* no call of _emitStartNote or _emitStopNote: the mode and the buffer are kept
NoFx(nm, nb) == [nm |-> nm, nb |-> nb, ev |-> << >>]

\* _emitStartNote() run with _noteMode = nm and _noteBuffer = nb
emitStartNote(nm, nb) ==
    IF nm THEN NoFx(nm, nb)
    ELSE [nm |-> TRUE, nb |-> << >>, ev |-> << CommandEv("start_note", s_note) >>]

\* mutant: the note is flushed and the buffer keeps its text
emitStopNote_KeepBuffer(nm, nb) ==
    IF ~nm THEN NoFx(nm, nb)
    ELSE [nm |-> FALSE, nb |-> nb,
          ev |-> (IF trim(nb) # << >> THEN << TranscriptEv(trim(nb), TRUE) >> ELSE << >>)
                 \o << CommandEv("stop_note", s_create) >>]

\* mutant: the buffered note is dropped, only the command is fired
emitStopNote_NoFlush(nm, nb) ==
    IF ~nm THEN NoFx(nm, nb)
    ELSE [nm |-> FALSE, nb |-> << >>, ev |-> << CommandEv("stop_note", s_create) >>]

\* _emitStopNote() run with _noteMode = nm and _noteBuffer = nb
emitStopNote(nm, nb) ==
    IF ~nm THEN NoFx(nm, nb)
    ELSE [nm |-> FALSE, nb |-> << >>,
          ev |-> (IF trim(nb) # << >> THEN << TranscriptEv(trim(nb), TRUE) >> ELSE << >>)
                 \o << CommandEv("stop_note", s_create) >>]

\* ------------------------------------------------------------------------
\* Combined extraction: _detectMRNAndTemplate
\* ------------------------------------------------------------------------

\* mutant: a field that is set is never overwritten
stored_FirstWins(match, old) == IF old = NULL THEN match ELSE old

\* if (match && match !== this._detectedX) this._detectedX = match: the field
\* afterwards
stored(match, old) == IF match # NULL /\ match # old THEN match ELSE old

\* if (this._detectedMRN && this._detectedTemplate): the fields and the event
combined(mrn1, tpl1, full) ==
    [mrn |-> mrn1, tpl |-> tpl1,
     ev  |-> IF mrn1 # NULL /\ tpl1 # NULL
             THEN << DetectedEv(mrn1, tpl1, full) >>
             ELSE << >>]

\* mutant: the event is fired as soon as one of the two fields is set
detectMRNAndTemplate_Either(text, mrn0, tpl0, templates, full) ==
    LET mrnMatch      == detectMRN(text)
        templateMatch == detectTemplate(text, templates)
        mrn1 == IF mrnMatch # NULL /\ mrnMatch # mrn0 THEN mrnMatch ELSE mrn0
        tpl1 == IF templateMatch # NULL /\ templateMatch # tpl0
                THEN templateMatch ELSE tpl0
    IN  [mrn |-> mrn1, tpl |-> tpl1,
         ev  |-> IF mrn1 # NULL \/ tpl1 # NULL
                 THEN << DetectedEv(mrn1, tpl1, full) >>
                 ELSE << >>]

\* mutant: the event is fired only when the chunk changed a field
detectMRNAndTemplate_OnChange(text, mrn0, tpl0, templates, full) ==
    LET mrnMatch      == detectMRN(text)
        templateMatch == detectTemplate(text, templates)
        mrn1 == IF mrnMatch # NULL /\ mrnMatch # mrn0 THEN mrnMatch ELSE mrn0
        tpl1 == IF templateMatch # NULL /\ templateMatch # tpl0
                THEN templateMatch ELSE tpl0
    IN  [mrn |-> mrn1, tpl |-> tpl1,
         ev  |-> IF mrn1 # NULL /\ tpl1 # NULL /\ (mrn1 # mrn0 \/ tpl1 # tpl0)
                 THEN << DetectedEv(mrn1, tpl1, full) >>
                 ELSE << >>]

\* _detectMRNAndTemplate(text) run with the stored fields mrn0 and tpl0 and
\* _fullTranscript = full: the fields afterwards and the event fired
detectMRNAndTemplate(text, mrn0, tpl0, templates, full) ==
    IF text = << >> THEN [mrn |-> mrn0, tpl |-> tpl0, ev |-> << >>]
    ELSE combined(stored(detectMRN(text), mrn0),
                  stored(detectTemplate(text, templates), tpl0), full)

\* ------------------------------------------------------------------------
\* Result aggregator: _onResult
\* ------------------------------------------------------------------------

\* mutant: the slots are collected whether final or not
finalSegments_AllSlots(results) ==
    LET kept == SelectSeq(results, LAMBDA res : trim(res.transcript) # << >>)
    IN  [i \in 1..Len(kept) |-> trim(kept[i].transcript)]

\* the for loop over e.results: the trimmed, non-empty final slots in order
finalSegments(results) ==
    LET kept == SelectSeq(results, LAMBDA res : res.isFinal /\ trim(res.transcript) # << >>)
    IN  [i \in 1..Len(kept) |-> trim(kept[i].transcript)]

\* the for loop over e.results: the last slot, if it is a non-empty interim
latestInterim(results) ==
    IF results # << >> /\ ~results[Len(results)].isFinal
    THEN trim(results[Len(results)].transcript)
    ELSE << >>

\* mutant: the interim branch is taken whenever there is an interim
interimBranch_NoFinalTest(fs, li) == li # << >>

\* if (latestInterim && !finalSegments.length)
interimBranch(fs, li) == li # << >> /\ fs = << >>

\* mutant: the interval must be exceeded, not reached
throttleOpen_Strict(t, last) == t - last > partialThrottleMs

\* if (now - this._lastPartialAt >= this.partialThrottleMs)
throttleOpen(t, last) == t - last >= partialThrottleMs

\* mutant: note mode does not keep a final chunk from the command parser
noteBranch_Never(nm) == FALSE

\* if (this._noteMode), the test that keeps a final chunk from the parser
noteBranch(nm) == nm

\* mutant: a command is delivered as dictation too
report_Both(action, finalTxt) ==
    IF action # "" THEN << CommandEv(action, finalTxt), TranscriptEv(finalTxt, TRUE) >>
    ELSE << TranscriptEv(finalTxt, TRUE) >>

\* the end of the final branch: the chunk is reported as the command action
\* or, when no rule matched, as final dictation
report(action, finalTxt) ==
    IF action # "" THEN << CommandEv(action, finalTxt) >>
    ELSE << TranscriptEv(finalTxt, TRUE) >>

\* mutant: a chunk received in note mode is not scanned for the fields
finalBranch_NoScanInNoteMode(finalTxt) ==
    LET full == AppendSp(fullTranscript, finalTxt)
        d    == IF noteMode
                THEN [mrn |-> detectedMRN, tpl |-> detectedTemplate, ev |-> << >>]
                ELSE detectMRNAndTemplate(finalTxt, detectedMRN, detectedTemplate,
                                          availableTemplates, full)
        lower == toLowerCase(finalTxt)
        nb1  == AppendSp(noteBuffer, finalTxt)
        stop == IF Test(reCreate, lower, FALSE) THEN emitStopNote(noteMode, nb1)
                ELSE NoFx(noteMode, nb1)
        cmd  == parseCommand(lower, customMap)
        fx   == IF cmd.rule = "note" THEN emitStartNote(noteMode, noteBuffer)
                ELSE IF cmd.rule = "create" THEN emitStopNote(noteMode, noteBuffer)
                ELSE NoFx(noteMode, noteBuffer)
    IN  /\ fullTranscript' = full
        /\ detectedMRN' = d.mrn
        /\ detectedTemplate' = d.tpl
        /\ IF noteBranch(noteMode)
           THEN /\ noteMode' = stop.nm
                /\ noteBuffer' = stop.nb
                /\ out' = d.ev \o << TranscriptEv(finalTxt, TRUE) >> \o stop.ev
           ELSE /\ noteMode' = fx.nm
                /\ noteBuffer' = fx.nb
                /\ out' = d.ev \o fx.ev \o
                          report(cmd.action, finalTxt)
        /\ UNCHANGED lastPartialAt

\* the final branch of _onResult for the chunk finalTxt
finalBranch(finalTxt) ==
    LET full == AppendSp(fullTranscript, finalTxt)
        d    == detectMRNAndTemplate(finalTxt, detectedMRN, detectedTemplate,
                                     availableTemplates, full)
        lower == toLowerCase(finalTxt)
        nb1  == AppendSp(noteBuffer, finalTxt)
        stop == IF Test(reCreate, lower, FALSE) THEN emitStopNote(noteMode, nb1)
                ELSE NoFx(noteMode, nb1)
        cmd  == parseCommand(lower, customMap)
        fx   == IF cmd.rule = "note" THEN emitStartNote(noteMode, noteBuffer)
                ELSE IF cmd.rule = "create" THEN emitStopNote(noteMode, noteBuffer)
                ELSE NoFx(noteMode, noteBuffer)
    IN  /\ fullTranscript' = full
        /\ detectedMRN' = d.mrn
        /\ detectedTemplate' = d.tpl
        /\ IF noteBranch(noteMode)
           THEN /\ noteMode' = stop.nm
                /\ noteBuffer' = stop.nb
                /\ out' = d.ev \o << TranscriptEv(finalTxt, TRUE) >> \o stop.ev
           ELSE /\ noteMode' = fx.nm
                /\ noteBuffer' = fx.nb
                /\ out' = d.ev \o fx.ev \o
                          report(cmd.action, finalTxt)
        /\ UNCHANGED lastPartialAt

\* _onResult(e) with e.results = results
onResult(results) ==
    LET fs == finalSegments(results)
        li == latestInterim(results)
    IN  /\ op' = "onResult"
        /\ interim' = li
        /\ chunk' = join(fs)
        /\ IF interimBranch(fs, li)
           THEN /\ IF throttleOpen(now, lastPartialAt)
                   THEN lastPartialAt' = now /\ out' = << TranscriptEv(li, FALSE) >>
                   ELSE lastPartialAt' = lastPartialAt /\ out' = << >>
                /\ UNCHANGED << noteMode, noteBuffer, fullTranscript,
                                detectedMRN, detectedTemplate >>
           ELSE IF Len(fs) > 0
           THEN finalBranch(join(fs))
           ELSE /\ out' = << >>
                /\ UNCHANGED << lastPartialAt, noteMode, noteBuffer, fullTranscript,
                                detectedMRN, detectedTemplate >>

\* ------------------------------------------------------------------------
\* The recognizer (SpeechRecognition objects) and its events
\* ------------------------------------------------------------------------

\* new this._SR(): a recognizer that has not been started
NewRec == [st |-> "idle", results |-> << >>]

\* rec.start() succeeds on a recognizer that is not started and throws
\* InvalidStateError on one that is running or has not yet ended
canStart(rs, r) == r # 0 /\ rs[r].st = "idle"

\* try { this._rec.start(); } catch { }   (this._rec may be null)
tryStart(rs, r) == IF canStart(rs, r) THEN [rs EXCEPT ![r].st = "running"] ELSE rs

Slot(text, isFinal) == [transcript |-> text, isFinal |-> isFinal]

AllFinal(results) == \A i \in 1..Len(results) : results[i].isFinal

FirstInterim(results) == CHOOSE i \in 1..Len(results) :
                            ~results[i].isFinal /\ \A j \in 1..(i - 1) : results[j].isFinal

\* the result lists a recognizer can deliver next, each with the text of the
\* slot it finalizes (<< >> when it finalizes none): a new slot at the end, a
\* new hypothesis in an interim slot, the first interim slot made final, the
\* last interim slot withdrawn.  Final slots never change and precede the
\* interim ones.
NextResults(results, texts) ==
    { [results |-> Append(results, Slot(t, FALSE)), fin |-> << >>] :
        t \in { x \in texts : Len(results) < MaxSlots } }
    \cup
    { [results |-> Append(results, Slot(t, TRUE)), fin |-> << trim(t) >>] :
        t \in { x \in texts : Len(results) < MaxSlots /\ AllFinal(results) } }
    \cup
    { [results |-> [results EXCEPT ![p[1]].transcript = p[2]], fin |-> << >>] :
        p \in { q \in (1..Len(results)) \X texts :
                  ~results[q[1]].isFinal /\ results[q[1]].transcript # q[2] } }
    \cup
    { [results |-> [results EXCEPT ![FirstInterim(results)].isFinal = TRUE],
       fin |-> << trim(results[FirstInterim(results)].transcript) >>] :
        x \in { y \in { 1 } : ~AllFinal(results) } }
    \cup
    { [results |-> SubSeq(results, 1, Len(results) - 1), fin |-> << >>] :
        x \in { y \in { 1 } : results # << >> /\ ~results[Len(results)].isFinal } }

\* a result event of recognizer r, handled by _onResult
RecResult(r) ==
    /\ recs[r].st \in { "running", "stopping", "failed" }
    /\ nResults < MaxResults
    /\ nResults' = nResults + 1
    /\ recCalls' = << >>
    /\ ret' = NULL
    /\ \E c \in NextResults(recs[r].results, host.texts) :
          /\ recs' = [recs EXCEPT ![r].results = c.results]
          /\ finals' = finals \o SelectSeq(c.fin, LAMBDA t : t # << >>)
          /\ onResult(c.results)
    /\ UNCHANGED << host, sto, SR, customMap, rec, listening, availableTemplates,
                    loadPending, now, arg >>

\* this._rec.start() as a call: none reaches a recognizer when _rec is null
startCall(r) == IF r # 0 THEN << << "start", r >> >> ELSE << >>

\* mutant: a recoverable error restarts whether or not the controller listens
restartOnError_Always(l, code) == code \in recoverable

\* if (this._listening && recoverable.includes(code))
restartOnError(l, code) == l /\ code \in recoverable

\* mutant: the end event never restarts the recognizer
restartOnEnd_Never(l) == FALSE

\* if (this._listening), the test of _onEnd
restartOnEnd(l) == l

\* an error event of recognizer r, handled by _onError: a recognizer raises
\* it while it runs or while it stops after stop(), at most once, and ends
\* after it (its end event is RecEnd)
RecError(r, code) ==
    /\ recs[r].st \in { "running", "stopping" }
    /\ op' = "onError"
    /\ ret' = NULL
    /\ out' = << ErrorEv(code) >>
    /\ LET rs == [recs EXCEPT ![r].st = "failed"]
       IN  IF restartOnError(listening, code)
           THEN recs' = tryStart(rs, rec) /\ recCalls' = startCall(rec)
           ELSE recs' = rs /\ recCalls' = << >>
    /\ chunk' = << >>
    /\ interim' = << >>
    /\ UNCHANGED << host, sto, SR, customMap, ctl, loadPending, now, finals,
                    nResults, arg >>

\* the end event of recognizer r, handled by _onEnd
RecEnd(r) ==
    /\ recs[r].st \in { "running", "stopping", "failed" }
    /\ op' = "onEnd"
    /\ ret' = NULL
    /\ LET rs == [recs EXCEPT ![r] = NewRec]
       IN  IF restartOnEnd(listening)
           THEN recs' = tryStart(rs, rec) /\ out' = << >> /\ recCalls' = startCall(rec)
           ELSE recs' = rs /\ out' = << ListenEv(FALSE) >> /\ recCalls' = << >>
    /\ chunk' = << >>
    /\ interim' = << >>
    /\ UNCHANGED << host, sto, SR, customMap, ctl, loadPending, now, finals,
                    nResults, arg >>

\* ------------------------------------------------------------------------
\* The public control surface
\* ------------------------------------------------------------------------

\* mutant: the exception of this._rec.start() is swallowed without a report
startCatch_Silent ==
    [listening |-> FALSE, out |-> << ListenEv(FALSE) >>, ret |-> FALSE]

\* catch (e) { ... } of start(): the flag it sets, the callbacks it fires
\* (this._errString(e) is the name of the exception) and the value it returns
startCatch ==
    [listening |-> FALSE,
     out |-> << ListenEv(FALSE), ErrorEv("InvalidStateError") >>,
     ret |-> FALSE]

\* mutant: start() goes on without a SpeechRecognition constructor
apiUnavailable_Ignored(sr) == FALSE

\* if (!this._SR)
apiUnavailable(sr) == ~sr

\* start()
Start ==
    /\ "start" \in host.calls
    /\ (~apiUnavailable(SR) /\ ~listening /\ rec = 0) => Len(recs) < MaxRecs
    /\ op' = "start"
    /\ chunk' = << >>
    /\ interim' = << >>
    /\ IF apiUnavailable(SR)
       THEN /\ out' = << ErrorEv("speech_api_unavailable") >>
            /\ recCalls' = << >>
            /\ ret' = FALSE
            /\ UNCHANGED << rec, recs, listening >>
       ELSE IF listening
       THEN /\ out' = << >>
            /\ recCalls' = << >>
            /\ ret' = TRUE
            /\ UNCHANGED << rec, recs, listening >>
       ELSE LET rs == IF rec = 0 THEN Append(recs, NewRec) ELSE recs
                r  == IF rec = 0 THEN Len(recs) + 1 ELSE rec
            IN  /\ rec' = r
                /\ recCalls' = startCall(r)
                /\ IF canStart(rs, r)
                   THEN /\ recs' = [rs EXCEPT ![r].st = "running"]
                        /\ listening' = TRUE
                        /\ out' = << ListenEv(TRUE) >>
                        /\ ret' = TRUE
                   ELSE /\ recs' = rs
                        /\ listening' = startCatch.listening
                        /\ out' = startCatch.out
                        /\ ret' = startCatch.ret
    /\ UNCHANGED << host, sto, SR, customMap, lastPartialAt, noteMode, noteBuffer,
                    fullTranscript, detectedMRN, detectedTemplate,
                    availableTemplates, loadPending, now, finals,
                    nResults, arg >>

\* the body of stop(): everything but this._rec
stopBody ==
    IF rec = 0
    THEN /\ out' = << >>
         /\ recCalls' = << >>
         /\ UNCHANGED << recs, listening, noteMode, noteBuffer >>
    ELSE LET fx == emitStopNote(noteMode, noteBuffer)
         IN  /\ recCalls' = << << "stop", rec >> >>
             /\ recs' = [recs EXCEPT ![rec].st = IF @ = "running" THEN "stopping" ELSE @]
             /\ listening' = FALSE
             /\ noteMode' = fx.nm
             /\ noteBuffer' = fx.nb
             /\ out' = << ListenEv(FALSE) >> \o fx.ev

\* stop()
Stop ==
    /\ "stop" \in host.calls
    /\ op' = "stop"
    /\ ret' = NULL
    /\ chunk' = << >>
    /\ interim' = << >>
    /\ stopBody
    /\ UNCHANGED << host, sto, SR, customMap, rec, lastPartialAt, fullTranscript,
                    detectedMRN, detectedTemplate, availableTemplates,
                    loadPending, now, finals,
                    nResults, arg >>

\* destroy()
Destroy ==
    /\ "destroy" \in host.calls
    /\ op' = "destroy"
    /\ ret' = NULL
    /\ chunk' = << >>
    /\ interim' = << >>
    /\ stopBody
    /\ rec' = 0
    /\ UNCHANGED << host, sto, SR, customMap, lastPartialAt, fullTranscript,
                    detectedMRN, detectedTemplate, availableTemplates,
                    loadPending, now, finals,
                    nResults, arg >>

\* setTemplates(templates)
SetTemplates(templates) ==
    /\ "setTemplates" \in host.calls
    /\ op' = "setTemplates"
    /\ ret' = NULL
    /\ out' = << >>
    /\ recCalls' = << >>
    /\ chunk' = << >>
    /\ interim' = << >>
    /\ availableTemplates' = IF Len(templates) > 0 THEN templates ELSE availableTemplates
    /\ UNCHANGED << host, sto, SR, customMap, rec, recs, listening, lastPartialAt,
                    noteMode, noteBuffer, fullTranscript, detectedMRN,
                    detectedTemplate, loadPending, now, finals,
                    nResults, arg >>

\* resetDetection()
ResetDetection ==
    /\ "resetDetection" \in host.calls
    /\ op' = "resetDetection"
    /\ ret' = NULL
    /\ out' = << >>
    /\ recCalls' = << >>
    /\ chunk' = << >>
    /\ interim' = << >>
    /\ fullTranscript' = << >>
    /\ detectedMRN' = NULL
    /\ detectedTemplate' = NULL
    /\ finals' = << >>
    /\ UNCHANGED << host, sto, SR, customMap, rec, recs, listening, lastPartialAt,
                    noteMode, noteBuffer, availableTemplates, loadPending, now,
                    nResults, arg >>

\* the continuation of _loadTemplatesFromAPI after its await: the list of
\* window.getAvailableTemplates when it is non-empty, else the options of
\* the DOM select when there is one (fromDOM), else nothing
LoadTemplates(templates, fromDOM) ==
    /\ loadPending
    /\ loadPending' = FALSE
    /\ availableTemplates' = IF Len(templates) > 0 \/ fromDOM THEN templates
                             ELSE availableTemplates
    /\ UNCHANGED << host, recCalls, sto, SR, customMap, rec, recs, listening, lastPartialAt,
                    noteMode, noteBuffer, fullTranscript, detectedMRN,
                    detectedTemplate, now, op, out, chunk, interim, finals,
                    nResults, arg, ret >>

\* time passes
Tick ==
    /\ now < host.maxNow
    /\ now' = now + TickMs
    /\ UNCHANGED << host, recCalls, sto, SR, customMap, ctl, recs, loadPending, op, out,
                    chunk, interim, finals,
                    nResults, arg, ret >>

Next ==
    \/ Start
    \/ Stop
    \/ Destroy
    \/ \E t \in host.lists \cup { << >> } : SetTemplates(t)
    \/ ResetDetection
    \/ \E t \in host.lists \cup { << >> }, d \in BOOLEAN : LoadTemplates(t, d)
    \/ Tick
    \/ \E r \in 1..Len(recs) : RecResult(r)
    \/ \E r \in 1..Len(recs), code \in host.errors : RecError(r, code)
    \/ \E r \in 1..Len(recs) : RecEnd(r)

Spec == Init /\ [][Next]_vars

\* ------------------------------------------------------------------------
\* _parseCommand as a function: a specification that applies it to the
\* utterances of at most MaxWords words over ParseWords
\* ------------------------------------------------------------------------

\* words of an utterance given to _parseCommand
MaxWords == 3

w_Unmute == << "U", "n", "m", "u", "t", "e" >>

w_microphone == s_mic \o s_rophone

w_now == << "n", "o", "w" >>

ParseWords == { s_unmute, w_Unmute, s_mute, s_disconnect, s_connect, s_the,
                w_microphone, w_now, s_note }

\* the utterances of exactly n words, the words separated by one space
RECURSIVE UtterancesOf(_)
UtterancesOf(n) ==
    IF n = 1 THEN ParseWords
    ELSE { u \o << " " >> \o w : u \in UtterancesOf(n - 1), w \in ParseWords }

ParseInputs == UNION { UtterancesOf(n) : n \in 1..MaxWords }

InitParse ==
    /\ Init
    /\ host = HostNoSpeechAPI

\* the host has an utterance to classify
ChooseUtterance ==
    /\ op = "constructor"
    /\ arg = << >>
    /\ arg' \in ParseInputs
    /\ UNCHANGED << host, recCalls, sto, SR, customMap, ctl, recs, loadPending, now, op, out,
                    chunk, interim, finals, nResults, ret >>

\* _parseCommand(arg), with the note mode change of its rules note and create
ApplyParse ==
    /\ op = "constructor"
    /\ arg # << >>
    /\ op' = "parseCommand"
    /\ LET cmd == parseCommand(arg, customMap)
           fx  == IF cmd.rule = "note" THEN emitStartNote(noteMode, noteBuffer)
                  ELSE IF cmd.rule = "create" THEN emitStopNote(noteMode, noteBuffer)
                  ELSE NoFx(noteMode, noteBuffer)
       IN  /\ ret' = cmd
           /\ noteMode' = fx.nm
           /\ noteBuffer' = fx.nb
           /\ out' = fx.ev
    /\ UNCHANGED << host, recCalls, sto, SR, customMap, rec, listening, lastPartialAt,
                    fullTranscript, detectedMRN, detectedTemplate,
                    availableTemplates, recs, loadPending, now,
                    chunk, interim, finals, nResults, arg >>

NextParse == ChooseUtterance \/ ApplyParse

SpecParse == InitParse /\ [][NextParse]_vars

\* ------------------------------------------------------------------------
\* Properties
\* ------------------------------------------------------------------------

\* a step in which a recognizer delivered a result event to _onResult
ResultStep == nResults' = nResults + 1

\* the result list that event carried
Delivered ==
    recs'[CHOOSE r \in 1..Len(recs) : recs'[r].results # recs[r].results].results

\* the list has a final slot with text that is not white space
HasFinal(results) ==
    \E i \in 1..Len(results) : results[i].isFinal /\ trim(results[i].transcript) # << >>

\* the list has an interim slot with text that is not white space
HasInterim(results) ==
    \E i \in 1..Len(results) : ~results[i].isFinal /\ trim(results[i].transcript) # << >>

IsInterimEv(e) == e.cb = "onTranscript" /\ ~e.fin

IsFinalEv(e) == e.cb = "onTranscript" /\ e.fin

IsCommandEv(e) == e.cb = "onCommand"

IsDetectedEv(e) == e.cb = "onMRNTemplateDetected"

C2_InterimThrottle ==
    [][ResultStep =>
          /\ (~HasFinal(Delivered) /\ latestInterim(Delivered) # << >>) =>
                IF now - lastPartialAt >= partialThrottleMs
                THEN /\ out' = << TranscriptEv(latestInterim(Delivered), FALSE) >>
                     /\ lastPartialAt' = now
                ELSE /\ out' = << >>
                     /\ lastPartialAt' = lastPartialAt
          /\ \A i \in 1..Len(out') : IsInterimEv(out'[i]) =>
                /\ out'[i].txt = latestInterim(Delivered)
                /\ now - lastPartialAt >= partialThrottleMs
                /\ lastPartialAt' = now]_vars

\* C2 witness: an interim was emitted, a later interim-only callback inside the
\* throttle interval was dropped
C2_Witness ==
    /\ op = "onResult" /\ chunk = << >> /\ interim # << >> /\ out = << >>
    /\ lastPartialAt >= StartNow
    /\ now > lastPartialAt

\* C3: a result callback with at least one non-empty final slot fires no
\* onTranscript(text, false).
C3_FinalsTakePriority ==
    [][(ResultStep /\ HasFinal(Delivered)) =>
          \A i \in 1..Len(out') : ~IsInterimEv(out'[i])]_vars

\* C3 witness: a callback carrying a final slot and a trailing non-empty
\* interim slot, handled while the throttle was open
C3_Witness ==
    /\ op = "onResult" /\ chunk # << >> /\ interim # << >>
    /\ now - lastPartialAt >= partialThrottleMs

\* the words of a text: its maximal runs of characters other than white space
WordsOf(text) == { splitWs(text)[i] : i \in 1..Len(splitWs(text)) }

u_unmute_the_microphone == s_unmute \o << " " >> \o s_the \o << " " >> \o w_microphone

u_disconnect_now == s_disconnect \o << " " >> \o w_now

\* C4: with no custom overrides, an utterance with the word 'unmute' and none
\* of the words note, create, connect, disconnect is classified unmute (never
\* mute), and an utterance with the word 'disconnect' and none of note, create
\* is classified disconnect (never connect).
C4_Precedence ==
    op = "parseCommand" =>
        LET ws == WordsOf(toLowerCase(arg))
        IN  /\ (s_unmute \in ws /\ ws \cap { s_note, s_create, s_connect, s_disconnect } = { })
                  => ret.action = "unmute"
            /\ (s_disconnect \in ws /\ ws \cap { s_note, s_create } = { })
                  => ret.action = "disconnect"

\* C4 witness: 'unmute the microphone' has been classified, and it is unmute
C4_Witness ==
    /\ op = "parseCommand"
    /\ arg = u_unmute_the_microphone
    /\ ret.action = "unmute"
    /\ customMap = << >>

\* the finalized chunk of a delivered list: its non-empty final slots, trimmed
\* and joined by single spaces
ChunkOf(results) == join(finalSegments(results))

\* C5: in NoteTaking a finalized utterance is delivered by onTranscript(text,
\* true) and appended to the note buffer (the buffer kept, or flushed with the
\* utterance in it), and the only onCommand it can fire is stop_note.
C5_NoteModeOverride ==
    [][(ResultStep /\ noteMode /\ HasFinal(Delivered)) =>
          /\ \E i \in 1..Len(out') : out'[i] = TranscriptEv(ChunkOf(Delivered), TRUE)
          /\ \A i \in 1..Len(out') : IsCommandEv(out'[i]) => out'[i].act = "stop_note"
          /\ IF noteMode'
             THEN noteBuffer' = AppendSp(noteBuffer, ChunkOf(Delivered))
             ELSE \E i \in 1..Len(out') :
                     out'[i] = TranscriptEv(trim(AppendSp(noteBuffer, ChunkOf(Delivered))), TRUE)]_vars

\* C5 witness: the utterance 'Mute' arrived in NoteTaking and was dictated
C5_Witness ==
    /\ noteMode
    /\ op = "onResult"
    /\ chunk = u_mute
    /\ out = << TranscriptEv(u_mute, TRUE) >>
    /\ includes(noteBuffer, u_mute)

\* C6: a finalized utterance with the standalone word 'create' in NoteTaking
\* makes the mode Normal, fires onCommand('stop_note') exactly once, fires a
\* final onTranscript with the buffered note text before it, and leaves the
\* note buffer empty.
C6_CreateEndsNote ==
    [][(ResultStep /\ noteMode /\ HasFinal(Delivered)
          /\ s_create \in WordsOf(toLowerCase(ChunkOf(Delivered)))) =>
          /\ ~noteMode'
          /\ noteBuffer' = << >>
          /\ Count(out', LAMBDA e : IsCommandEv(e) /\ e.act = "stop_note") = 1
          /\ \E i \in 1..Len(out') :
                /\ IsCommandEv(out'[i]) /\ out'[i].act = "stop_note"
                /\ \E j \in 1..(i - 1) :
                      out'[j] = TranscriptEv(trim(AppendSp(noteBuffer, ChunkOf(Delivered))), TRUE)]_vars

\* C6 witness: 'create' arrived while a note with text was open
C6_Witness ==
    /\ op = "onResult"
    /\ chunk = s_create
    /\ ~noteMode
    /\ \E i \in 1..Len(out) : IsFinalEv(out[i]) /\ includes(out[i].txt, u_mute)
    /\ \E i \in 1..Len(out) : IsCommandEv(out[i]) /\ out[i].act = "stop_note"

\* C7: stop() called in NoteTaking delivers the buffered note text by a final
\* onTranscript (when it is not empty), fires onCommand('stop_note') and leaves
\* the mode Normal and the buffer empty.
C7_StopFlushesNote ==
    [][(Stop /\ noteMode) =>
          /\ ~noteMode'
          /\ noteBuffer' = << >>
          /\ \E i \in 1..Len(out') : IsCommandEv(out'[i]) /\ out'[i].act = "stop_note"
          /\ trim(noteBuffer) # << >> =>
                \E i \in 1..Len(out') : out'[i] = TranscriptEv(trim(noteBuffer), TRUE)]_vars

\* C8: a finalized utterance classified as a command in Normal mode causes
\* exactly one onCommand call.
C8_OneCommandEach ==
    [][(ResultStep /\ ~noteMode /\ HasFinal(Delivered)
          /\ parseCommand(toLowerCase(ChunkOf(Delivered)), customMap).action # "") =>
          Count(out', IsCommandEv) = 1]_vars

\* C9: from a fresh detection state an utterance with only an MRN fires no
\* onMRNTemplateDetected; a later utterance with only a matching template
\* fires exactly one, with the MRN of the earlier utterance and the new
\* template; no combined event is fired while either field is unset.
C9_CombinedTrigger ==
    [][(ResultStep /\ HasFinal(Delivered)) =>
          LET m == detectMRN(ChunkOf(Delivered))
              t == detectTemplate(ChunkOf(Delivered), availableTemplates)
          IN  /\ (detectedMRN = NULL /\ detectedTemplate = NULL /\ m # NULL /\ t = NULL) =>
                    /\ Count(out', IsDetectedEv) = 0
                    /\ detectedMRN' = m
              /\ (detectedMRN # NULL /\ detectedTemplate = NULL /\ m = NULL /\ t # NULL) =>
                    /\ Count(out', IsDetectedEv) = 1
                    /\ \E i \in 1..Len(out') :
                          /\ IsDetectedEv(out'[i])
                          /\ out'[i].mrn = detectedMRN
                          /\ out'[i].tpl = t
              /\ \A i \in 1..Len(out') : IsDetectedEv(out'[i]) =>
                    detectedMRN' # NULL /\ detectedTemplate' # NULL]_vars

\* C9 witness: the MRN came from the first utterance, the template from the
\* second, and the second fired the one combined event
C9_Witness ==
    /\ op = "onResult"
    /\ finals = << u_MRN_AB1, s_soap >>
    /\ chunk = s_soap
    /\ out = << DetectedEv(u_AB1, u_SOAP_Note, fullTranscript), TranscriptEv(s_soap, TRUE) >>

\* C10: once both fields are set, a finalized chunk fires exactly one
\* onMRNTemplateDetected, with the stored mrn and template as they are after
\* the chunk and the full accumulated transcript including the chunk.
C10_RepeatedNotification ==
    [][(ResultStep /\ HasFinal(Delivered) /\ detectedMRN # NULL /\ detectedTemplate # NULL) =>
          /\ Count(out', IsDetectedEv) = 1
          /\ \E i \in 1..Len(out') :
                out'[i] = DetectedEv(detectedMRN', detectedTemplate',
                                     AppendSp(fullTranscript, ChunkOf(Delivered)))
          /\ fullTranscript' = AppendSp(fullTranscript, ChunkOf(Delivered))]_vars

\* C10 witness: a chunk with neither an MRN nor a template arrived after both
\* fields had been set, and fired the event
C10_Witness ==
    /\ op = "onResult"
    /\ chunk = u_yo
    /\ detectedMRN = u_AB1
    /\ detectedTemplate = u_SOAP_Note
    /\ Count(out, IsDetectedEv) = 1

\* C11: a stored field changes only by a finalized utterance that matches a
\* value for it, and then becomes exactly that value (an utterance without a
\* match leaves it as it was); a field that is set becomes unset only by
\* resetDetection().
C11_LastWriteWins ==
    [][/\ (ResultStep /\ HasFinal(Delivered)) =>
             /\ detectedMRN' =
                   IF detectMRN(ChunkOf(Delivered)) # NULL
                   THEN detectMRN(ChunkOf(Delivered)) ELSE detectedMRN
             /\ detectedTemplate' =
                   IF detectTemplate(ChunkOf(Delivered), availableTemplates) # NULL
                   THEN detectTemplate(ChunkOf(Delivered), availableTemplates)
                   ELSE detectedTemplate
       /\ ~(ResultStep /\ HasFinal(Delivered)) =>
             /\ detectedMRN' # detectedMRN => (op' = "resetDetection" /\ detectedMRN' = NULL)
             /\ detectedTemplate' # detectedTemplate =>
                   (op' = "resetDetection" /\ detectedTemplate' = NULL)]_vars

\* C11 witness: both fields were set by one utterance and overwritten, each
\* with the new value, by a later one
C11_Witness ==
    /\ op = "onResult"
    /\ finals = << u_MRN_AB1_soap, u_MRN_7_progress >>
    /\ chunk = u_MRN_7_progress
    /\ detectedMRN = u_MRNAB7
    /\ detectedTemplate = u_Progress_Note

\* ------------------------------------------------------------------------
\* _detectMRN as a function: a specification that applies it to the
\* utterances of at most MaxMRNWords words over MRNWords and to some longer
\* phrases, and then once more to the value it returned
\* ------------------------------------------------------------------------

\* words of an utterance given to _detectMRN
MaxMRNWords == 3

w_AB == << "A", "B" >>

w_123 == << "1", "2", "3" >>

w_456 == << "4", "5", "6" >>

w_7 == << "7" >>

w_AB123 == w_AB \o w_123

w_AB_123 == w_AB \o << "-" >> \o w_123

w_room == << "r", "o", "o", "m" >>

w_Patient == << "P", "a", "t", "i", "e", "n", "t" >>

u_MRNAB123 == s_MRNAB \o w_123

MRNWords == { s_MRN, s_number, s_patient, s_is, w_room, w_AB, w_123, w_7, w_AB123, w_AB_123 }

\* the utterances of exactly n words of the set words, separated by one space
RECURSIVE Phrases(_, _)
Phrases(words, n) ==
    IF n = 1 THEN words
    ELSE { u \o << " " >> \o w : u \in Phrases(words, n - 1), w \in words }

\* "MRN AB-123" and "MRN AB 123"
u_MRN_AB_hyphen_123 == s_MRN \o << " " >> \o w_AB_123

u_MRN_AB_space_123 == s_MRN \o << " " >> \o w_AB \o << " " >> \o w_123

\* "MRN number 123"
u_MRN_number_123 == s_MRN \o << " " >> \o s_number \o << " " >> \o w_123

\* "Patient MRN number 456"
u_Patient_MRN_number_456 ==
    w_Patient \o << " " >> \o s_MRN \o << " " >> \o s_number \o << " " >> \o w_456

\* "M R N A B one two three"
u_M_R_N_A_B_one_two_three ==
    << "M", " ", "R", " ", "N", " ", "A", " ", "B", " ", "o", "n", "e", " ",
       "t", "w", "o", " ", "t", "h", "r", "e", "e" >>

\* "M R N AB 123"
u_M_R_N_AB_123 == << "M", " ", "R", " ", "N", " " >> \o w_AB \o << " " >> \o w_123

MRNInputs ==
    UNION { Phrases(MRNWords, n) : n \in 1..MaxMRNWords }
    \cup { u_Patient_MRN_number_456, u_M_R_N_A_B_one_two_three, u_M_R_N_AB_123 }

InitMRN ==
    /\ Init
    /\ host = HostNoSpeechAPI

\* a finalized utterance reaches the extractor
ChooseMRNText ==
    /\ op = "constructor"
    /\ arg = << >>
    /\ arg' \in MRNInputs
    /\ UNCHANGED << host, recCalls, sto, SR, customMap, ctl, recs, loadPending, now, op, out,
                    chunk, interim, finals, nResults, ret >>

\* const mrnMatch = this._detectMRN(text) and the update of _detectedMRN
\* that follows it in _detectMRNAndTemplate
ApplyDetectMRN ==
    /\ op = "constructor"
    /\ arg # << >>
    /\ op' = "detectMRN"
    /\ ret' = detectMRN(arg)
    /\ detectedMRN' = stored(ret', detectedMRN)
    /\ UNCHANGED << host, recCalls, sto, SR, customMap, rec, listening, lastPartialAt, noteMode,
                    noteBuffer, fullTranscript, detectedTemplate,
                    availableTemplates, recs, loadPending, now, out,
                    chunk, interim, finals, nResults, arg >>

\* the value _detectMRN returned is given to _detectMRN
ApplyDetectMRNAgain ==
    /\ op = "detectMRN"
    /\ ret # NULL
    /\ op' = "detectMRN again"
    /\ arg' = ret
    /\ ret' = detectMRN(ret)
    /\ detectedMRN' = stored(ret', detectedMRN)
    /\ UNCHANGED << host, recCalls, sto, SR, customMap, rec, listening, lastPartialAt, noteMode,
                    noteBuffer, fullTranscript, detectedTemplate,
                    availableTemplates, recs, loadPending, now, out,
                    chunk, interim, finals, nResults >>

NextMRN == ChooseMRNText \/ ApplyDetectMRN \/ ApplyDetectMRNAgain

SpecMRN == InitMRN /\ [][NextMRN]_vars

\* C12: 'MRN AB-123' and 'MRN AB 123' give the same value, and _detectMRN
\* applied to a value it returned gives that value again.
C12_NormalizationIdempotent ==
    /\ (op = "detectMRN" /\ arg = u_MRN_AB_hyphen_123) => ret = detectMRN(u_MRN_AB_space_123)
    /\ (op = "detectMRN" /\ arg = u_MRN_AB_space_123) => ret = detectMRN(u_MRN_AB_hyphen_123)
    /\ op = "detectMRN again" => ret = arg


\* C12 (first part only): the two spellings give the value AB123, and AB123
\* given to _detectMRN gives AB123
C12_SeparatorInsensitive ==
    /\ (op = "detectMRN" /\ arg \in { u_MRN_AB_hyphen_123, u_MRN_AB_space_123 }) => ret = w_AB123
    /\ (op = "detectMRN again" /\ arg = w_AB123) => ret = w_AB123

IsDigits(w) == w # << >> /\ \A i \in 1..Len(w) : w[i] \in DigitCh

IsLetters(w) == w # << >> /\ \A i \in 1..Len(w) : w[i] \in UpperCh \cup LowerCh

\* an utterance with an all-digit word whose other words are plain words of
\* letters: no word mixes letters and digits, none is the keyword MRN in any
\* case, none is a single letter (as in the spelled keyword M R N)
BareDigits(text) ==
    /\ \E w \in WordsOf(text) : IsDigits(w)
    /\ \A w \in WordsOf(text) :
          \/ IsDigits(w)
          \/ IsLetters(w) /\ Len(w) > 1 /\ toUpperCase(w) # s_MRN

\* C13: an utterance whose only identifier-like token is a bare all-digit
\* token, with no MRN keyword, yields no MRN: _detectMRN returns null and
\* the stored MRN is not changed.
C13_BareDigitsRejected ==
    [][(op = "constructor" /\ op' = "detectMRN" /\ BareDigits(arg)) =>
          /\ ret' = NULL
          /\ detectedMRN' = detectedMRN]_vars

\* C13 witness: 'patient number 123' was given to _detectMRN
C13_Witness ==
    /\ op = "detectMRN"
    /\ arg = s_patient \o << " " >> \o s_number \o << " " >> \o w_123
    /\ ret = NULL

\* an utterance that ends 'MRN <digits>' or 'MRN number <digits>', the words
\* before the keyword being plain words of letters
DigitsPhrase(text) ==
    LET ws == splitWs(text)
        n  == Len(ws)
        k  == IF n >= 3 /\ ws[n - 1] = s_number THEN n - 2 ELSE n - 1
    IN  /\ n >= 2
        /\ IsDigits(ws[n])
        /\ ws[k] = s_MRN
        /\ \A i \in 1..(k - 1) : IsLetters(ws[i]) /\ Len(ws[i]) > 1 /\ toUpperCase(ws[i]) # s_MRN

\* C14: an utterance of the form 'MRN <digits>' or 'MRN number <digits>'
\* yields MRNAB followed by the digits.
C14_DigitsOnlyPhrases ==
    (op = "detectMRN" /\ DigitsPhrase(arg)) =>
        ret = s_MRNAB \o splitWs(arg)[Len(splitWs(arg))]

\* C14 (the form without the word number): 'MRN <digits>' yields MRNAB<digits>
C14_WithoutNumberWord ==
    (op = "detectMRN" /\ DigitsPhrase(arg) /\ s_number \notin WordsOf(arg)) =>
        ret = s_MRNAB \o splitWs(arg)[Len(splitWs(arg))]

\* C15: the utterance 'M R N A B one two three' yields the MRN MRNAB123.
C15_SpelledOut ==
    (op = "detectMRN" /\ arg = u_M_R_N_A_B_one_two_three) =>
        ret = u_MRNAB123 /\ detectedMRN = u_MRNAB123

\* ------------------------------------------------------------------------
\* _detectTemplate as a function: a specification that applies it to the
\* utterances of at most MaxTemplateWords words over TemplateWords, with each
\* of the template lists the host supplies by setTemplates
\* ------------------------------------------------------------------------

\* words of an utterance given to _detectTemplate
MaxTemplateWords == 3

TemplateWords == { s_consult, w_Consultation, s_soap, s_progress, s_notes,
                   w_cardiology, w_summary }

TemplateInputs == UNION { Phrases(TemplateWords, n) : n \in 1..MaxTemplateWords }

InitTemplate ==
    /\ Init
    /\ host = HostTemplateLists

\* setTemplates(list), before an utterance arrives
SupplyTemplates ==
    /\ op = "constructor"
    /\ arg = << >>
    /\ \E t \in host.lists : SetTemplates(t)

\* a finalized utterance reaches the extractor
ChooseTemplateText ==
    /\ op \in { "constructor", "setTemplates" }
    /\ arg = << >>
    /\ arg' \in TemplateInputs
    /\ UNCHANGED << host, recCalls, sto, SR, customMap, ctl, recs, loadPending, now, op, out,
                    chunk, interim, finals, nResults, ret >>

\* const templateMatch = this._detectTemplate(text) and the update of
\* _detectedTemplate that follows it in _detectMRNAndTemplate
ApplyDetectTemplate ==
    /\ op \in { "constructor", "setTemplates" }
    /\ arg # << >>
    /\ op' = "detectTemplate"
    /\ ret' = detectTemplate(arg, availableTemplates)
    /\ detectedTemplate' = stored(ret', detectedTemplate)
    /\ UNCHANGED << host, recCalls, sto, SR, customMap, rec, listening, lastPartialAt, noteMode,
                    noteBuffer, fullTranscript, detectedMRN,
                    availableTemplates, recs, loadPending, now, out,
                    chunk, interim, finals, nResults, arg >>

NextTemplate == SupplyTemplates \/ ChooseTemplateText \/ ApplyDetectTemplate

SpecTemplate == InitTemplate /\ [][NextTemplate]_vars

\* the significant words of a normalized template name: its words longer than
\* three characters that are not note, form or the
SignificantWords(name) ==
    LET ws == splitWs(name)
    IN  SelectSeq(ws, LAMBDA w : Len(w) > 3 /\ w # s_note /\ w # s_form /\ w # s_the)

\* exact containment: the normalized utterance contains the normalized name
ExactHit(nt, name) == includes(nt, name)

\* how many of the significant words occur in the normalized utterance
Overlap(nt, name) ==
    Cardinality({ i \in 1..Len(SignificantWords(name)) : includes(nt, SignificantWords(name)[i]) })

\* word overlap: at least 70% of the significant words occur in the utterance
FuzzyHit(nt, name) ==
    /\ SignificantWords(name) # << >>
    /\ 100 * Overlap(nt, name) >= 70 * Len(SignificantWords(name))

\* phrase fallback: first and last, or first two, significant words, verbatim
PhraseHit(nt, name) ==
    LET sw == SignificantWords(name)
    IN  /\ sw # << >>
        /\ \/ includes(nt, sw[1] \o << " " >> \o sw[Len(sw)])
           \/ Len(sw) >= 2 /\ includes(nt, sw[1] \o << " " >> \o sw[2])

\* the template satisfies one of the three steps for the utterance
TemplateHit(text, template) ==
    LET nt   == normalize(toLowerCase(text))
        name == normalize(toLowerCase(template))
    IN  ExactHit(nt, name) \/ FuzzyHit(nt, name) \/ PhraseHit(nt, name)

\* C16: _detectTemplate returns the first template of the supplied list that
\* satisfies exact containment, the word-overlap threshold or the phrase
\* fallback, and no match when none does; what it returns is an element of
\* the list.
C16_FirstMatchingTemplate ==
    op = "detectTemplate" =>
        LET T == availableTemplates
        IN  \/ /\ ret = NULL
               /\ \A i \in 1..Len(T) : ~TemplateHit(arg, T[i])
            \/ \E i \in 1..Len(T) :
                  /\ ret = T[i]
                  /\ TemplateHit(arg, T[i])
                  /\ \A j \in 1..(i - 1) : ~TemplateHit(arg, T[j])

\* C16 witness: 'cardiology progress' matches both templates of a list, and
\* the first of the list as supplied was returned, in either order
C16_Witness ==
    /\ op = "detectTemplate"
    /\ arg = w_cardiology \o << " " >> \o s_progress
    /\ availableTemplates = << u_Progress_Note, u_Cardiology_Progress_Summary >>
    /\ ret = u_Progress_Note

\* C17: a template is accepted by word overlap exactly when at least 70% of
\* its significant words occur in the normalized utterance: with 'Consultation
\* Note Form' an utterance with 'consultation' and neither 'note' nor 'form'
\* matches; with a template of three significant words an utterance with one
\* of them does not match.
C17_FuzzyThreshold ==
    op = "detectTemplate" =>
        LET nt == normalize(toLowerCase(arg))
            T  == availableTemplates
        IN  /\ ( /\ T = << u_Consultation_Note_Form >>
                 /\ includes(nt, s_consultation)
                 /\ ~includes(nt, s_note)
                 /\ ~includes(nt, s_form) ) => ret = u_Consultation_Note_Form
            /\ ( /\ T = << u_Cardiology_Progress_Summary >>
                 /\ Overlap(nt, normalize(toLowerCase(u_Cardiology_Progress_Summary))) = 1 )
                  => ret = NULL
            /\ ( /\ Len(T) = 1
                 /\ ~ExactHit(nt, normalize(toLowerCase(T[1])))
                 /\ ~PhraseHit(nt, normalize(toLowerCase(T[1]))) )
                  => (ret = T[1] <=> FuzzyHit(nt, normalize(toLowerCase(T[1]))))

\* C17 witness: 'summary progress' has two of the three significant words of
\* 'Cardiology Progress Summary' (67%), in no phrase, and was not matched
C17_Witness ==
    /\ op = "detectTemplate"
    /\ availableTemplates = << u_Cardiology_Progress_Summary >>
    /\ arg = w_summary \o << " " >> \o s_progress
    /\ ret = NULL

\* C17 (its first case): 'consult soap' was matched to 'Consultation Note Form'
C17_WitnessOneWord ==
    /\ op = "detectTemplate"
    /\ availableTemplates = << u_Consultation_Note_Form >>
    /\ arg = s_consult \o << " " >> \o s_soap
    /\ ret = u_Consultation_Note_Form

\* C18: while the template list is empty (no supplier, a failing one, or an
\* empty list), a finalized utterance matches no template: detectedTemplate
\* stays unset, no onMRNTemplateDetected and no onError is fired, and the MRN
\* is detected, the command classified and the transcript delivered as
\* usual; a template load that supplies nothing fires nothing.
C18_NoTemplatesDegrades ==
    [][/\ (ResultStep /\ HasFinal(Delivered) /\ availableTemplates = << >>
              /\ detectedTemplate = NULL) =>
             /\ detectedTemplate' = NULL
             /\ \A i \in 1..Len(out') : out'[i].cb \notin { "onMRNTemplateDetected", "onError" }
             /\ detectedMRN' = IF detectMRN(ChunkOf(Delivered)) # NULL
                               THEN detectMRN(ChunkOf(Delivered)) ELSE detectedMRN
             /\ fullTranscript' = AppendSp(fullTranscript, ChunkOf(Delivered))
             /\ \E i \in 1..Len(out') :
                   out'[i] = IF ~noteMode
                                /\ parseCommand(toLowerCase(ChunkOf(Delivered)), customMap).action # ""
                             THEN CommandEv(parseCommand(toLowerCase(ChunkOf(Delivered)),
                                                         customMap).action,
                                            ChunkOf(Delivered))
                             ELSE TranscriptEv(ChunkOf(Delivered), TRUE)
       /\ (loadPending /\ ~loadPending' /\ availableTemplates = << >>
              /\ availableTemplates' = << >>) =>
             UNCHANGED << out, op, ctl >>]_vars

\* C18 witness: the template load supplied nothing; 'MRN AB1' and then 'soap'
\* arrived: the MRN is stored, 'soap' was delivered as dictation and matched
\* no template
C18_Witness ==
    /\ op = "onResult"
    /\ ~loadPending
    /\ availableTemplates = << >>
    /\ finals = << u_MRN_AB1, s_soap >>
    /\ chunk = s_soap
    /\ detectedMRN = u_AB1
    /\ detectedTemplate = NULL
    /\ out = << TranscriptEv(s_soap, TRUE) >>


\* ------------------------------------------------------------------------
\* scribe-storage.js: ScribeStorage over window.localStorage
\*
\* An object is the sequence of its << key, value >> properties in insertion
\* order; a call returns [ls, threw, val]: the storage it leaves, whether it
\* threw, and the value it returned.
\* ------------------------------------------------------------------------

\* the call returned val
Ret(ls, val) == [ls |-> ls, threw |-> FALSE, val |-> val]

\* the call threw
Throw(ls) == [ls |-> ls, threw |-> TRUE, val |-> NULL]

\* try { r } catch (e) { console.error(...); return val; }
Catch(r, val) == IF r.threw THEN Ret(r.ls, val) ELSE r

\* the call of method on key throws under the failures f
Throws(f, method, key) == << method, key >> \in f

\* localStorage.getItem(key)
getItem(ls, f, key) ==
    IF Throws(f, "getItem", key) THEN Throw(ls) ELSE Ret(ls, ls[key])

\* localStorage.setItem(key, value)
setItem(ls, f, key, value) ==
    IF Throws(f, "setItem", key) THEN Throw(ls)
    ELSE Ret([ls EXCEPT ![key] = value], NULL)

\* localStorage.removeItem(key)
removeItem(ls, f, key) ==
    IF Throws(f, "removeItem", key) THEN Throw(ls)
    ELSE Ret([ls EXCEPT ![key] = NULL], NULL)

\* o[k], undefined when o has no property k
RECURSIVE objGet(_, _)
objGet(o, k) ==
    IF o = << >> THEN NULL
    ELSE IF Head(o)[1] = k THEN Head(o)[2] ELSE objGet(Tail(o), k)

\* the properties a session object can have; an object lists its own in this
\* order (no operation of ScribeStorage depends on the order of properties)
PropertyOrder == << "mrn", "template", "transcript", "timestamp" >>

\* o[k] = v
objSet(o, k, v) ==
    LET keys == SelectSeq(PropertyOrder,
                          LAMBDA p : p = k \/ \E i \in 1..Len(o) : o[i][1] = p)
    IN  [i \in 1..Len(keys) |->
            << keys[i], IF keys[i] = k THEN v ELSE objGet(o, keys[i]) >>]

\* delete o[k]
objDel(o, k) == SelectSeq(o, LAMBDA p : p[1] # k)

\* { ...a, ...b }
RECURSIVE spread(_, _)
spread(a, b) ==
    IF b = << >> THEN a ELSE spread(objSet(a, Head(b)[1], Head(b)[2]), Tail(b))

\* JSON.stringify(o) of an object: its properties between braces
JSONstringify(o) == << "{" >> \o o \o << "}" >>

\* JSON.parse(text) run on storage ls: the object, or a SyntaxError
JSONparse(ls, text) ==
    IF Len(text) >= 2 /\ text[1] = "{" /\ text[Len(text)] = "}"
    THEN Ret(ls, SubSeq(text, 2, Len(text) - 1))
    ELSE Throw(ls)

\* mutant: the catch of getSessionData is missing
getSessionData_NoCatch(ls, f) ==
    LET data == getItem(ls, f, SESSION_DATA)
    IN  IF data.threw THEN data
        ELSE IF data.val # NULL THEN JSONparse(ls, data.val) ELSE Ret(ls, << >>)

\* static getSessionData()
getSessionData(ls, f) ==
    LET data == getItem(ls, f, SESSION_DATA)
    IN  Catch(IF data.threw THEN data
              ELSE IF data.val # NULL THEN JSONparse(ls, data.val) ELSE Ret(ls, << >>),
              << >>)

\* static saveSessionData(data), with Date.now() = t
saveSessionData(ls, f, data, t) ==
    LET existing == getSessionData(ls, f)
    IN  Catch(IF existing.threw THEN existing
              ELSE setItem(ls, f, SESSION_DATA,
                           JSONstringify(objSet(spread(existing.val, data),
                                                "timestamp", t))),
              NULL)

\* static _updateSessionData(data)
updateSessionData(ls, f, data, t) ==
    LET existing == getSessionData(ls, f)
    IN  IF existing.threw THEN existing
        ELSE saveSessionData(ls, f, spread(existing.val, data), t)

\* the body shared by saveMRN, saveTemplate and saveTranscript
saveField(ls, f, key, field, value, t) ==
    IF value = NULL THEN Ret(ls, NULL)
    ELSE LET set == setItem(ls, f, key, value)
         IN  Catch(IF set.threw THEN set
                   ELSE updateSessionData(set.ls, f, << << field, value >> >>, t),
                   NULL)

\* static saveMRN(mrn)
saveMRN(ls, f, mrn, t) == saveField(ls, f, CURRENT_MRN, "mrn", mrn, t)

\* static saveTemplate(template)
saveTemplate(ls, f, template, t) ==
    saveField(ls, f, CURRENT_TEMPLATE, "template", template, t)

\* static saveTranscript(transcript)
saveTranscript(ls, f, transcript, t) ==
    saveField(ls, f, CURRENT_TRANSCRIPT, "transcript", transcript, t)

\* the body shared by getMRN, getTemplate and getTranscript
getField(ls, f, key) == Catch(getItem(ls, f, key), NULL)

\* static getMRN()
getMRN(ls, f) == getField(ls, f, CURRENT_MRN)

\* static getTemplate()
getTemplate(ls, f) == getField(ls, f, CURRENT_TEMPLATE)

\* static getTranscript()
getTranscript(ls, f) == getField(ls, f, CURRENT_TRANSCRIPT)

\* Object.values(STORAGE_KEYS).forEach(key => localStorage.removeItem(key))
RECURSIVE removeEach(_, _, _)
removeEach(r, f, keys) ==
    IF r.threw \/ keys = << >> THEN r
    ELSE removeEach(removeItem(r.ls, f, Head(keys)), f, Tail(keys))

\* mutant: the session blob is left in place
clearAll_KeepSession(ls, f) ==
    Catch(removeEach(Ret(ls, NULL), f, SubSeq(KeyOrder, 1, 3)), NULL)

\* static clearAll()
clearAll(ls, f) == Catch(removeEach(Ret(ls, NULL), f, KeyOrder), NULL)

\* mutant: the key is removed and the field stays in the session blob
clearField_KeyOnly(ls, f, key, field) ==
    LET removed == removeItem(ls, f, key)
        session == getSessionData(removed.ls, f)
    IN  Catch(IF removed.threw THEN removed
              ELSE IF session.threw THEN session
              ELSE setItem(removed.ls, f, SESSION_DATA, JSONstringify(session.val)),
              NULL)

\* the body shared by clearMRN and clearTemplate
clearField(ls, f, key, field) ==
    LET removed == removeItem(ls, f, key)
        session == getSessionData(removed.ls, f)
    IN  Catch(IF removed.threw THEN removed
              ELSE IF session.threw THEN session
              ELSE setItem(removed.ls, f, SESSION_DATA,
                           JSONstringify(objDel(session.val, field))),
              NULL)

\* static clearMRN()
clearMRN(ls, f) == clearField(ls, f, CURRENT_MRN, "mrn")

\* static clearTemplate()
clearTemplate(ls, f) == clearField(ls, f, CURRENT_TEMPLATE, "template")

\* static hasActiveSession()
hasActiveSession(ls, f) ==
    LET session == getSessionData(ls, f)
    IN  IF session.threw THEN session
        ELSE Ret(ls, objGet(session.val, "mrn") # NULL
                     \/ objGet(session.val, "template") # NULL)

\* static getActiveSession()
getActiveSession(ls, f) ==
    LET mrn == getMRN(ls, f)
        template == getTemplate(ls, f)
        transcript == getTranscript(ls, f)
        session == getSessionData(ls, f)
    IN  IF mrn.threw \/ template.threw \/ transcript.threw \/ session.threw
        THEN Throw(ls)
        ELSE Ret(ls, spread(<< << "mrn", mrn.val >>, << "template", template.val >>,
                               << "transcript", transcript.val >> >>,
                            session.val))


\* ------------------------------------------------------------------------
\* ScribeStorage as a state machine: one action per static method, each run
\* under a choice of the localStorage calls that throw
\* ------------------------------------------------------------------------

\* the values handed to saveMRN, saveTemplate and saveTranscript
SavedMRNs == { NULL, w_AB123, u_MRNAB7 }

SavedTemplates == { NULL, u_SOAP_Note }

SavedTranscripts == { NULL, s_patient }

\* the objects handed to saveSessionData
SavedSessions ==
    { << >>, << << "mrn", w_AB123 >> >>, << << "template", u_SOAP_Note >> >> }

\* the calls of localStorage
StorageCalls == { "getItem", "setItem", "removeItem" } \X STORAGE_KEYS

\* the failures of one operation: none, every call of one method, every
\* call, the write of the session blob alone, the removal of the template alone
Faults ==
    { { } , StorageCalls,
      { << "setItem", SESSION_DATA >> }, { << "removeItem", CURRENT_TEMPLATE >> } }
    \cup { { c \in StorageCalls : c[1] = method } :
                method \in { "getItem", "setItem", "removeItem" } }

InitStorage == Init /\ host = HostNoSpeechAPI

\* the method name was called with a under the failures f and ended as r
Called(name, a, f, r) ==
    /\ op' = name
    /\ arg' = a
    /\ fault' = f
    /\ localStorage' = r.ls
    /\ threw' = r.threw
    /\ ret' = r.val
    /\ UNCHANGED << host, recCalls, SR, customMap, ctl, recs, loadPending, now, out, chunk,
                    interim, finals, nResults >>

SaveMRN ==
    \E mrn \in SavedMRNs, f \in Faults :
        Called("saveMRN", mrn, f, saveMRN(localStorage, f, mrn, now))

GetMRN == \E f \in Faults : Called("getMRN", NULL, f, getMRN(localStorage, f))

SaveTemplate ==
    \E template \in SavedTemplates, f \in Faults :
        Called("saveTemplate", template, f, saveTemplate(localStorage, f, template, now))

GetTemplate ==
    \E f \in Faults : Called("getTemplate", NULL, f, getTemplate(localStorage, f))

SaveTranscript ==
    \E transcript \in SavedTranscripts, f \in Faults :
        Called("saveTranscript", transcript, f,
               saveTranscript(localStorage, f, transcript, now))

GetTranscript ==
    \E f \in Faults : Called("getTranscript", NULL, f, getTranscript(localStorage, f))

SaveSessionData ==
    \E data \in SavedSessions, f \in Faults :
        Called("saveSessionData", data, f, saveSessionData(localStorage, f, data, now))

GetSessionData ==
    \E f \in Faults : Called("getSessionData", NULL, f, getSessionData(localStorage, f))

ClearAll == \E f \in Faults : Called("clearAll", NULL, f, clearAll(localStorage, f))

ClearMRN == \E f \in Faults : Called("clearMRN", NULL, f, clearMRN(localStorage, f))

ClearTemplate ==
    \E f \in Faults : Called("clearTemplate", NULL, f, clearTemplate(localStorage, f))

HasActiveSession ==
    \E f \in Faults :
        Called("hasActiveSession", NULL, f, hasActiveSession(localStorage, f))

GetActiveSession ==
    \E f \in Faults :
        Called("getActiveSession", NULL, f, getActiveSession(localStorage, f))

NextStorage ==
    \/ SaveMRN
    \/ GetMRN
    \/ SaveTemplate
    \/ GetTemplate
    \/ SaveTranscript
    \/ GetTranscript
    \/ SaveSessionData
    \/ GetSessionData
    \/ ClearAll
    \/ ClearMRN
    \/ ClearTemplate
    \/ HasActiveSession
    \/ GetActiveSession

SpecStorage == InitStorage /\ [][NextStorage]_vars


\* ------------------------------------------------------------------------
\* C19: session persistence round trip
\* ------------------------------------------------------------------------

\* what getMRN(), getTemplate() and getTranscript() return on storage ls
\* when no call of localStorage fails
Readback(ls) ==
    << getMRN(ls, { }).val, getTemplate(ls, { }).val, getTranscript(ls, { }).val >>

\* C19: while no call of localStorage fails, saveMRN(v) with a non-empty v
\* makes getMRN() return v, and every operation that is neither saveMRN nor a
\* clear leaves what getMRN() returns as it was (likewise for the template
\* and the transcript); after clearAll(), getMRN(), getTemplate() and
\* getTranscript() return null, the session blob is empty and
\* hasActiveSession() is false.
C19_RoundTrip ==
    [][ /\ (op' = "saveMRN" /\ arg' # NULL /\ fault' = { })
            => Readback(localStorage')[1] = arg'
        /\ (op' = "saveTemplate" /\ arg' # NULL /\ fault' = { })
            => Readback(localStorage')[2] = arg'
        /\ (op' = "saveTranscript" /\ arg' # NULL /\ fault' = { })
            => Readback(localStorage')[3] = arg'
        /\ op' \notin { "saveMRN", "clearMRN", "clearAll" }
            => Readback(localStorage')[1] = Readback(localStorage)[1]
        /\ op' \notin { "saveTemplate", "clearTemplate", "clearAll" }
            => Readback(localStorage')[2] = Readback(localStorage)[2]
        /\ op' \notin { "saveTranscript", "clearAll" }
            => Readback(localStorage')[3] = Readback(localStorage)[3]
        /\ (op' = "getMRN" /\ fault' = { }) => ret' = Readback(localStorage)[1]
        /\ (op' = "getTemplate" /\ fault' = { }) => ret' = Readback(localStorage)[2]
        /\ (op' = "getTranscript" /\ fault' = { }) => ret' = Readback(localStorage)[3]
        /\ (op' = "clearAll" /\ fault' = { })
            => /\ Readback(localStorage') = << NULL, NULL, NULL >>
               /\ localStorage'[SESSION_DATA] = NULL
               /\ getSessionData(localStorage', { }).val = << >>
               /\ hasActiveSession(localStorage', { }).val = FALSE ]_vars

\* the MRN 'AB123' is read back while a template and a session blob are
\* stored and another MRN was saved before it
C19_Witness ==
    /\ op = "getMRN"
    /\ fault = { }
    /\ ret = w_AB123
    /\ localStorage[CURRENT_TEMPLATE] = u_SOAP_Note
    /\ objGet(getSessionData(localStorage, { }).val, "mrn") = w_AB123
    /\ Len(getSessionData(localStorage, { }).val) = 3

\* clearAll() has run without a failure
C19_WitnessCleared ==
    /\ op = "clearAll"
    /\ fault = { }
    /\ localStorage = [key \in STORAGE_KEYS |-> NULL]

\* ------------------------------------------------------------------------
\* C20: storage failures never propagate
\* ------------------------------------------------------------------------

\* the read of key failed during the last operation
ReadFailed(key) == << "getItem", key >> \in fault

\* C20: whichever calls of localStorage fail, no operation of ScribeStorage
\* throws to its caller; getMRN, getTemplate and getTranscript return null
\* when their read fails, getSessionData returns an empty session and
\* hasActiveSession returns false when the read of the session blob fails.
C20_FailuresNeverPropagate ==
    /\ ~threw
    /\ (op = "getMRN" /\ ReadFailed(CURRENT_MRN)) => ret = NULL
    /\ (op = "getTemplate" /\ ReadFailed(CURRENT_TEMPLATE)) => ret = NULL
    /\ (op = "getTranscript" /\ ReadFailed(CURRENT_TRANSCRIPT)) => ret = NULL
    /\ (op = "getSessionData" /\ ReadFailed(SESSION_DATA)) => ret = << >>
    /\ (op = "hasActiveSession" /\ ReadFailed(SESSION_DATA)) => ret = FALSE

\* getSessionData() has returned an empty session because its read failed,
\* although a session blob with an MRN is stored
C20_Witness ==
    /\ op = "getSessionData"
    /\ ReadFailed(SESSION_DATA)
    /\ ~threw
    /\ ret = << >>
    /\ objGet(getSessionData(localStorage, { }).val, "mrn") = w_AB123

\* saveMRN('AB123') has returned although every call of localStorage failed
C20_WitnessSave ==
    /\ op = "saveMRN"
    /\ arg = w_AB123
    /\ fault = StorageCalls
    /\ ~threw


\* ------------------------------------------------------------------------
\* C21: a failing save changes nothing
\* ------------------------------------------------------------------------

\* the methods that save
SaveOps == { "saveMRN", "saveTemplate", "saveTranscript", "saveSessionData" }

\* a write of localStorage failed during the last operation
WriteFailed == \E key \in STORAGE_KEYS : << "setItem", key >> \in fault

\* C21: when a setItem of localStorage fails during saveMRN, saveTemplate,
\* saveTranscript or saveSessionData, localStorage is after the call what it
\* was before it; in particular the field key is not updated while the
\* session blob keeps the old value.
C21_FailedSaveChangesNothing ==
    [][(op' \in SaveOps /\ WriteFailed') => localStorage' = localStorage]_vars

\* a failing write of the field key itself leaves localStorage as it was
C21_FailedFieldWrite ==
    [][(op' \in SaveOps /\ fault' = { c \in StorageCalls : c[1] = "setItem" })
          => localStorage' = localStorage]_vars


\* ------------------------------------------------------------------------
\* C22: auto-restart exactly while listening
\* ------------------------------------------------------------------------

\* the operation called start() on a recognizer
IssuedStart(calls) == \E i \in 1..Len(calls) : calls[i][1] = "start"

\* C22: on a recoverable error and on an end event handled while the
\* listening flag is true the controller calls start() on its recognizer at
\* once; while the flag is false (stop() has cleared it and start() has not
\* been called since) no error or end event makes it call start(); the flag
\* becomes true only by start() and false only by start(), stop() or destroy().
C22_AutoRestartIffListening ==
    [][ /\ \A r \in 1..Len(recs), code \in ErrorCodes :
              RecError(r, code) =>
                 recCalls' = IF listening /\ code \in recoverable
                             THEN << << "start", rec >> >> ELSE << >>
        /\ \A r \in 1..Len(recs) :
              RecEnd(r) =>
                 recCalls' = IF listening THEN << << "start", rec >> >> ELSE << >>
        /\ (op' \in { "onError", "onEnd", "onResult" } /\ ~listening)
              => ~IssuedStart(recCalls')
        /\ (listening' /\ ~listening) => op' = "start"
        /\ (listening /\ ~listening') => op' \in { "start", "stop", "destroy" } ]_vars

\* a recoverable error was handled while listening and start() was called on
\* the recognizer held
C22_Witness ==
    /\ op = "onError"
    /\ out = << ErrorEv("no-speech") >>
    /\ listening
    /\ recCalls = << << "start", rec >> >>

\* the recognizer ended after stop() and no start() was called
C22_WitnessStopped ==
    /\ op = "onEnd"
    /\ ~listening
    /\ rec # 0
    /\ recCalls = << >>
    /\ out = << ListenEv(FALSE) >>


\* ------------------------------------------------------------------------
\* C23: no speech recognition in the browser
\* ------------------------------------------------------------------------

IsErrorEv(e) == e.cb = "onError"

IsListenEv(e) == e.cb = "onListenStateChange"

\* C23: without a SpeechRecognition constructor every start() fires
\* onError('speech_api_unavailable') once and nothing else, returns false,
\* creates no recognizer, calls none and leaves the listening flag false; no
\* other step fires an error or a listen state change, creates a recognizer
\* or sets the flag, so the start is not retried.
C23_UnavailableCapability ==
    [][~SR =>
          /\ Start =>
                /\ out' = << ErrorEv("speech_api_unavailable") >>
                /\ ret' = FALSE
          /\ ~Start =>
                \/ out' = out
                \/ \A i \in 1..Len(out') : ~IsErrorEv(out'[i])
          /\ \A i \in 1..Len(out') : ~IsListenEv(out'[i])
          /\ recs' = << >>
          /\ rec' = 0
          /\ recCalls' = << >>
          /\ ~listening' ]_vars

\* start() was called without a SpeechRecognition constructor: it reported
\* the failure and returned false
C23_Witness ==
    /\ ~SR
    /\ op = "start"
    /\ ret = FALSE
    /\ out = << ErrorEv("speech_api_unavailable") >>
    /\ recs = << >>
    /\ ~listening


\* ------------------------------------------------------------------------
\* C24: the recognizer throws in start()
\* ------------------------------------------------------------------------

\* this._rec.start() will throw: the recognizer held is started and has not
\* ended
StartWillThrow == rec # 0 /\ recs[rec].st # "idle"

\* C24: when this._rec.start() throws in a start() that reaches it, start()
\* returns false (so it returns), the listening flag is false afterwards and
\* exactly one onError is fired.
C24_StartFailure ==
    [][(Start /\ SR /\ ~listening /\ StartWillThrow) =>
          /\ ret' = FALSE
          /\ ~listening'
          /\ Count(out', IsErrorEv) = 1
          /\ recCalls' = << << "start", rec >> >> ]_vars

\* start() was called after stop() and before the recognizer had ended: the
\* recognizer threw and start() reported it
C24_Witness ==
    /\ op = "start"
    /\ SR
    /\ ret = FALSE
    /\ ~listening
    /\ rec # 0
    /\ recs[rec].st = "stopping"
    /\ out = << ListenEv(FALSE), ErrorEv("InvalidStateError") >>


\* ------------------------------------------------------------------------
\* C25: listen state notifications and transitions of the flag
\* ------------------------------------------------------------------------

\* a step of one of the operations that fire onListenStateChange
ListenStep == Start \/ Stop \/ Destroy \/ \E r \in 1..Len(recs) : RecEnd(r)

\* C25: an onListenStateChange(v) is fired only by a step in which the
\* listening flag changes to v.
C25_ListenChangeOnTransitions ==
    [][ListenStep =>
          \A i \in 1..Len(out') :
              IsListenEv(out'[i]) => (listening' = out'[i].fin /\ listening' # listening)]_vars

\* start() that succeeds is a transition and fires onListenStateChange(true)
C25_StartIsTransition ==
    [][(Start /\ listening') => (~listening /\ out' = << ListenEv(TRUE) >>) \/ (listening /\ out' = << >>)]_vars


\* ------------------------------------------------------------------------
\* C26: the fields are extracted whatever becomes of the chunk
\* ------------------------------------------------------------------------

\* what the scan of the chunk text leaves, from the stored fields mrn0 and
\* tpl0, the template list and the transcript before the chunk: the fields
\* and the combined events fired
Scanned(text, mrn0, tpl0, templates, full0) ==
    LET mrn1 == IF detectMRN(text) # NULL THEN detectMRN(text) ELSE mrn0
        tpl1 == IF detectTemplate(text, templates) # NULL
                THEN detectTemplate(text, templates) ELSE tpl0
    IN  << mrn1, tpl1,
           IF mrn1 # NULL /\ tpl1 # NULL
           THEN << DetectedEv(mrn1, tpl1, AppendSp(full0, text)) >> ELSE << >> >>

\* C26: the stored fields after a finalized chunk and the combined events it
\* fires are a function of the chunk text, the template list and the
\* detection state before it alone: they are the same whether the chunk is
\* classified as a command, delivered as dictation or received in NoteTaking.
C26_ExtractionIndependent ==
    [][(ResultStep /\ HasFinal(Delivered)) =>
          << detectedMRN', detectedTemplate', SelectSeq(out', IsDetectedEv) >>
             = Scanned(ChunkOf(Delivered), detectedMRN, detectedTemplate,
                       availableTemplates, fullTranscript)]_vars

\* 'MRN 7 note' was classified as a command and set the MRN
C26_WitnessCommand ==
    /\ op = "onResult"
    /\ chunk = u_MRN_7_note
    /\ Count(out, IsCommandEv) > 0
    /\ detectedMRN = u_MRNAB7

\* 'MRN AB1 soap' was received in NoteTaking, after the command 'MRN 7 note'
\* had set the MRN: it overwrote the MRN, set the template and fired the
\* combined event
C26_Witness ==
    /\ op = "onResult"
    /\ noteMode
    /\ chunk = u_MRN_AB1_soap
    /\ finals = << u_MRN_7_note, u_MRN_AB1_soap >>
    /\ detectedMRN = u_AB1
    /\ detectedTemplate = u_SOAP_Note
    /\ Count(out, IsDetectedEv) = 1
    /\ Count(out, IsFinalEv) = 1

\* 'MRN AB1 soap' was delivered as dictation in Normal mode with the same
\* effect on the fields
C26_WitnessDictation ==
    /\ op = "onResult"
    /\ ~noteMode
    /\ chunk = u_MRN_AB1_soap
    /\ detectedMRN = u_AB1
    /\ detectedTemplate = u_SOAP_Note
    /\ Count(out, IsDetectedEv) = 1
    /\ Count(out, IsCommandEv) = 0


\* ------------------------------------------------------------------------
\* C27: a finalized chunk is a command or dictation
\* ------------------------------------------------------------------------

\* C27: in Normal mode a finalized chunk fires onCommand or onTranscript(text,
\* true), never both and never neither: onCommand alone when a rule matches,
\* and when no rule matches exactly one onTranscript(text, true) carrying the
\* chunk with its original casing and no onCommand.
C27_CommandOrDictation ==
    [][(ResultStep /\ ~noteMode /\ HasFinal(Delivered)) =>
          /\ (Count(out', IsCommandEv) > 0) # (Count(out', IsFinalEv) > 0)
          /\ Count(out', IsCommandEv) > 0
                <=> parseCommand(toLowerCase(ChunkOf(Delivered)), customMap).action # ""
          /\ Count(out', IsFinalEv) > 0 =>
                SelectSeq(out', IsFinalEv) = << TranscriptEv(ChunkOf(Delivered), TRUE) >>]_vars

\* 'Hi' matched no rule in Normal mode and was delivered once, as spoken
C27_Witness ==
    /\ op = "onResult"
    /\ ~noteMode
    /\ chunk = << "H", "i" >>
    /\ toLowerCase(chunk) # chunk
    /\ out = << TranscriptEv(chunk, TRUE) >>

\* 'mute' was reported as a command in Normal mode and not as dictation
C27_WitnessCommand ==
    /\ op = "onResult"
    /\ ~noteMode
    /\ chunk = u_mute
    /\ out = << CommandEv("mute", u_mute) >>


\* ------------------------------------------------------------------------
\* C28: the rules are tried in a fixed order and the first match wins
\* ------------------------------------------------------------------------

\* the first override of cm whose pattern matches text, 0 when none does
FirstOverride(cm, text) ==
    IF \E i \in 1..Len(cm) : Test(cm[i].re, text, FALSE)
    THEN CHOOSE i \in 1..Len(cm) :
            /\ Test(cm[i].re, text, FALSE)
            /\ \A j \in 1..(i - 1) : ~Test(cm[j].re, text, FALSE)
    ELSE 0

\* the action of the earliest rule that matches text in the order custom
\* overrides (fo is the first override that matches, or 0), note, create,
\* disconnect, connect, unmute, mute, start stream, stop stream, hide, show,
\* urgent; "" when no rule matches
EarliestAction(text, cm, fo) ==
    IF fo # 0 THEN cm[fo].action
    ELSE IF Test(reNote, text, FALSE) THEN "start_note"
    ELSE IF Test(reCreate, text, FALSE) THEN "stop_note"
    ELSE IF Test(reDisconnect, text, FALSE) THEN "disconnect"
    ELSE IF Test(reConnect, text, FALSE) THEN "connect"
    ELSE IF Test(reUnmute, text, FALSE) THEN "unmute"
    ELSE IF Test(reMute, text, FALSE) THEN "mute"
    ELSE IF Test(reStartStream, text, FALSE) THEN "start_stream"
    ELSE IF Test(reStopStream, text, FALSE) THEN "stop_stream"
    ELSE IF Test(reHide, text, FALSE) THEN "hide_video"
    ELSE IF Test(reShow, text, FALSE) THEN "show_video"
    ELSE IF Test(reSendUrgent, text, FALSE) \/ Test(reUrgentMessage, text, FALSE) THEN "urgent"
    ELSE ""

\* the actions the onCommand calls of evs report
ActionsOf(evs) == { evs[i].act : i \in { j \in 1..Len(evs) : IsCommandEv(evs[j]) } }

\* text has the standalone word w: an occurrence of w with no word character
\* next to it
HasWord(text, w) ==
    \E p \in 1..(Len(text) - Len(w) + 1) :
        /\ SubSeq(text, p, p + Len(w) - 1) = w
        /\ p = 1 \/ text[p - 1] \notin WordCh
        /\ p + Len(w) > Len(text) \/ text[p + Len(w)] \notin WordCh

\* the actions acts reported for the utterance text are those of the earliest
\* matching rule, fo being the first override that matches (or 0) and kept
\* telling whether the mode and the buffer were left as they were
FirstMatchReported(text, cm, fo, acts, kept) ==
    /\ acts = { EarliestAction(text, cm, fo) } \ { "" }
    /\ fo # 0 => kept
    /\ (fo = 0 /\ HasWord(text, s_note)) => acts = { "start_note" }

\* C28: the action reported for a finalized utterance in Normal mode is that
\* of the earliest matching rule in the order custom overrides, note, create,
\* disconnect, connect, unmute, mute, start stream, stop stream, hide, show,
\* urgent; a matching custom override causes no mode change, and an utterance
\* with the standalone word 'note' that no override matches reports start_note
\* and no other action.
C28_FirstMatchWins ==
    [][(ResultStep /\ ~noteMode /\ HasFinal(Delivered)) =>
          \A text \in { trim(toLowerCase(ChunkOf(Delivered))) } :
             \A fo \in { FirstOverride(customMap, text) } :
                FirstMatchReported(text, customMap, fo, ActionsOf(out'),
                                   noteMode' = noteMode /\ noteBuffer' = noteBuffer)]_vars

\* 'urgent note' matched the caller's override and the rule note: the action
\* of the override was reported and the mode stayed Normal
C28_Witness ==
    /\ op = "onResult"
    /\ chunk = u_urgent_note
    /\ customMap # << >>
    /\ out = << CommandEv("page_doctor", u_urgent_note) >>
    /\ ~noteMode

\* 'mute and take a note' was reported as start_note
C28_WitnessNote ==
    /\ op = "onResult"
    /\ chunk = u_mute_and_take_a_note
    /\ ActionsOf(out) = { "start_note" }
    /\ noteMode

\* with no overrides, every utterance with the word 'note' is classified
\* start_note by _parseCommand
C28_NoteFirst ==
    (op = "parseCommand" /\ HasWord(toLowerCase(arg), s_note)) => ret.action = "start_note"


\* ------------------------------------------------------------------------
\* C29: only the note rules and stop() change the dictation mode
\* ------------------------------------------------------------------------

\* C29: a finalized utterance reported as an action other than start_note and
\* stop_note leaves the dictation mode and the note buffer unchanged, and the
\* dictation mode changes only in a result callback whose utterance has the
\* word 'note' (in Normal mode) or the word 'create', or in stop(), which
\* destroy() calls.
C29_ClassificationSideEffects ==
    [][/\ (/\ ResultStep
           /\ ActionsOf(out') # { }
           /\ ActionsOf(out') \cap { "start_note", "stop_note" } = { }) =>
              /\ noteMode' = noteMode
              /\ noteBuffer' = noteBuffer
       /\ noteMode' # noteMode =>
              IF ResultStep
              THEN \E text \in { toLowerCase(ChunkOf(Delivered)) } :
                      \/ ~noteMode /\ HasWord(text, s_note)
                      \/ HasWord(text, s_create)
              ELSE op' \in { "stop", "destroy" }]_vars

\* 'mute' was reported while listening in Normal mode, after a note had been
\* taken and ended: the mode is Normal and the buffer empty as before
C29_Witness ==
    /\ op = "onResult"
    /\ listening
    /\ ActionsOf(out) = { "mute" }
    /\ \E i \in 1..Len(finals) : finals[i] = s_create
    /\ ~noteMode
    /\ noteBuffer = << >>

\* stop() ended a note
C29_WitnessStop ==
    /\ op = "stop"
    /\ "stop_note" \in ActionsOf(out)
    /\ ~noteMode


\* ------------------------------------------------------------------------
\* C30: the note buffer is empty outside note mode
\* ------------------------------------------------------------------------

\* C30: in every reachable state, if the dictation mode is Normal the note
\* buffer is empty; the buffer is non-empty only while the mode is NoteTaking.
C30_BufferEmptyInNormal == ~noteMode => noteBuffer = << >>

\* a note whose buffer held text was ended by a result callback: the text was
\* flushed, the mode is Normal and the buffer empty
C30_Witness ==
    /\ op = "onResult"
    /\ ~noteMode
    /\ noteBuffer = << >>
    /\ "stop_note" \in ActionsOf(out)
    /\ \E i \in 1..Len(out) : IsFinalEv(out[i]) /\ i < Len(out) /\ IsCommandEv(out[i + 1])

\* the buffer holds text while a note is taken
C30_WitnessNote ==
    /\ noteMode
    /\ noteBuffer # << >>


\* ------------------------------------------------------------------------
\* C31: the content of the flushed note
\* ------------------------------------------------------------------------

\* the finalized slots a result step added to the recognition, joined
Arrived == join(SubSeq(finals', Len(finals) + 1, Len(finals')))

\* the note text a step flushed: the final transcript fired right before
\* onCommand('stop_note'), << >> when there is none
FlushOf(evs) ==
    IF \E i \in 2..Len(evs) : IsCommandEv(evs[i]) /\ evs[i].act = "stop_note"
                               /\ IsFinalEv(evs[i - 1])
    THEN evs[(CHOOSE i \in 2..Len(evs) : IsCommandEv(evs[i]) /\ evs[i].act = "stop_note"
                                          /\ IsFinalEv(evs[i - 1])) - 1].txt
    ELSE << >>

\* the note as kept by a step taken in NoteTaking with the text added to it:
\* the buffer when the note goes on, the flushed text when the step ends it
NoteAfter(added) ==
    IF noteMode' THEN noteBuffer' = AppendSp(noteBuffer, added)
    ELSE FlushOf(out') = trim(AppendSp(noteBuffer, added))

\* C31: the note text flushed at 'create' or stop() is the single-space join,
\* in arrival order, of exactly the finalized chunks received while the mode
\* was NoteTaking: a note starts empty, each result callback received in
\* NoteTaking adds the finalized text that arrived with it and nothing else,
\* and the flush delivers the text so collected.
C31_FlushedNoteContent ==
    [][/\ (noteMode' /\ ~noteMode) => noteBuffer' = << >>
       /\ (ResultStep /\ noteMode) => NoteAfter(Arrived)
       /\ (Stop /\ noteMode /\ rec # 0) => FlushOf(out') = trim(noteBuffer)]_vars

\* each result callback received in NoteTaking adds the whole finalized text
\* of the list it carries, the slots finalized before it included
C31_CallbackChunks ==
    [][/\ (noteMode' /\ ~noteMode) => noteBuffer' = << >>
       /\ (ResultStep /\ noteMode /\ HasFinal(Delivered)) => NoteAfter(ChunkOf(Delivered))
       /\ (Stop /\ noteMode /\ rec # 0) => FlushOf(out') = trim(noteBuffer)]_vars


\* ------------------------------------------------------------------------
\* C32: interim results never accumulate
\* ------------------------------------------------------------------------

\* the list has no final slot
OnlyInterim(results) == \A i \in 1..Len(results) : ~results[i].isFinal

\* C32: a result callback whose list has only interim slots changes nothing
\* but the throttle timestamp: the accumulated transcript, the note buffer,
\* the dictation mode, the detected fields, the template list, the listening
\* flag and the recognizer held are unchanged, and it fires no onCommand and
\* no onMRNTemplateDetected.
C32_InterimsNeverAccumulate ==
    [][(ResultStep /\ OnlyInterim(Delivered)) =>
          /\ UNCHANGED << fullTranscript, noteBuffer, noteMode, detectedMRN,
                          detectedTemplate, availableTemplates, listening, rec >>
          /\ \A i \in 1..Len(out') : IsInterimEv(out'[i])]_vars

\* an interim-only callback was handled with the throttle open, after a
\* session whose finalized text is in the transcript: the interim was emitted
\* and the transcript is the one of before
C32_Witness ==
    /\ op = "onResult"
    /\ chunk = << >>
    /\ interim # << >>
    /\ out = << TranscriptEv(interim, FALSE) >>
    /\ lastPartialAt = now
    /\ fullTranscript # << >>
    /\ \E r \in 1..Len(recs) : recs[r].results # << >> /\ OnlyInterim(recs[r].results)


\* ------------------------------------------------------------------------
\* C33: the normal form of a detected MRN
\* ------------------------------------------------------------------------

\* v has a letter and a digit, no white space, no hyphen and no lowercase
\* letter
MRNNormalForm(v) ==
    /\ \E i \in 1..Len(v) : v[i] \in UpperCh \cup LowerCh
    /\ \E i \in 1..Len(v) : v[i] \in DigitCh
    /\ \A i \in 1..Len(v) : v[i] \notin SpaceCh \cup { "-" } \cup LowerCh

\* C33: every non-null value returned by _detectMRN, and so every value stored
\* in detectedMRN, has at least one letter and one digit, no white space, no
\* hyphen and no lowercase letter.
C33_MRNNormalForm ==
    /\ (op \in { "detectMRN", "detectMRN again" } /\ ret # NULL) => MRNNormalForm(ret)
    /\ detectedMRN # NULL => MRNNormalForm(detectedMRN)

\* 'MRN AB-123' gave 'AB123': the hyphen of the capture was removed
C33_Witness ==
    /\ op = "detectMRN"
    /\ arg = u_MRN_AB_hyphen_123
    /\ ret = w_AB123
    /\ detectedMRN = w_AB123

\* 'MRN number 7' gave 'NUMBER7': the space was removed and the letters made
\* uppercase
C33_WitnessLowercase ==
    /\ op = "detectMRN"
    /\ arg = s_MRN \o << " " >> \o s_number \o << " " >> \o w_7
    /\ ret = toUpperCase(s_number) \o w_7


\* ------------------------------------------------------------------------
\* C34: resetDetection
\* ------------------------------------------------------------------------

\* an MRN and a template are found in utterances of heard, the template
\* under one of the lists the host can have supplied
BothDetectedIn(heard) ==
    /\ \E i \in 1..Len(heard) : detectMRN(heard[i]) # NULL
    /\ \E j \in 1..Len(heard) : \E l \in host.lists : detectTemplate(heard[j], l) # NULL

\* resetDetection() leaves the MRN unset, the template unset and the
\* transcript empty, which is what getDetectedData() reports
C34_ResetClears ==
    [][ResetDetection =>
          /\ detectedMRN' = NULL
          /\ detectedTemplate' = NULL
          /\ fullTranscript' = << >>]_vars

\* C34: after resetDetection() the MRN and the template are unset and the
\* text empty, and a later result callback fires onMRNTemplateDetected only
\* when both an MRN and a template have been detected in utterances finalized
\* after the reset (finals holds the utterances finalized since the last
\* reset).
C34_ResetOfDetection ==
    [][/\ ResetDetection =>
              /\ detectedMRN' = NULL
              /\ detectedTemplate' = NULL
              /\ fullTranscript' = << >>
       /\ (ResultStep /\ Count(out', IsDetectedEv) > 0) => BothDetectedIn(finals')]_vars


\* ------------------------------------------------------------------------
\* C35: 'create' outside a note
\* ------------------------------------------------------------------------

\* a result step that hands to Normal mode a finalized utterance with the
\* standalone word 'create', without the word 'note' and matched by no
\* override
CreateInNormal ==
    /\ ResultStep
    /\ ~noteMode
    /\ HasFinal(Delivered)
    /\ \E text \in { trim(toLowerCase(ChunkOf(Delivered))) } :
          /\ HasWord(text, s_create)
          /\ ~HasWord(text, s_note)
          /\ FirstOverride(customMap, text) = 0

\* C35: a finalized utterance with the standalone word 'create' (and not
\* 'note') received in Normal mode leaves the mode and the note buffer
\* unchanged and delivers no stop_note command and no note flush.
C35_CreateOutsideNote ==
    [][CreateInNormal =>
          /\ noteMode' = noteMode
          /\ noteBuffer' = noteBuffer
          /\ "stop_note" \notin ActionsOf(out')
          /\ Count(out', IsFinalEv) = 0]_vars

\* the state part of it: the mode and the buffer are unchanged and no note
\* text is flushed
C35_CreateKeepsState ==
    [][CreateInNormal =>
          /\ noteMode' = noteMode
          /\ noteBuffer' = noteBuffer
          /\ Count(out', IsFinalEv) = 0]_vars


\* ------------------------------------------------------------------------
\* C36: listening implies a live recognizer
\* ------------------------------------------------------------------------

C36_WitnessError ==
    /\ op = "onError"
    /\ listening
    /\ rec # 0
    /\ recs[rec].st = "failed"


\* ------------------------------------------------------------------------
\* C37: errors that are not recoverable
\* ------------------------------------------------------------------------

\* the last event handled was an error whose code is not recoverable, raised
\* by recognizer r, which has not ended yet
FailedForGood(r) ==
    /\ op = "onError"
    /\ \E code \in ErrorCodes \ recoverable : out = << ErrorEv(code) >>
    /\ recs[r].st = "failed"
    /\ \A q \in 1..Len(recs) : recs[q].st = "failed" => q = r

\* the error handler reports an error that is not recoverable through
\* onError and calls start() on no recognizer
C37_HandlerDoesNotRestart ==
    [][\A r \in 1..Len(recs), code \in ErrorCodes \ recoverable :
          RecError(r, code) =>
             /\ out' = << ErrorEv(code) >>
             /\ ~IssuedStart(recCalls')]_vars

\* C37: a recognizer error whose code is not one of no-speech, aborted,
\* audio-capture, network is reported through onError and leads to no start
\* of a recognizer, neither in the error handler nor in the handler of the
\* end event that follows the error.
C37_NoRestartAfterFatalError ==
    [][/\ \A r \in 1..Len(recs), code \in ErrorCodes \ recoverable :
             RecError(r, code) =>
                /\ out' = << ErrorEv(code) >>
                /\ ~IssuedStart(recCalls')
       /\ \A r \in 1..Len(recs) :
             (FailedForGood(r) /\ RecEnd(r)) => ~IssuedStart(recCalls')]_vars


\* ------------------------------------------------------------------------
\* C38: the template list supplied at run time
\* ------------------------------------------------------------------------

\* the step is a call of setTemplates
SetTemplatesStep == \E t \in host.lists \cup { << >> } : SetTemplates(t)

\* the list in use was supplied by setTemplates: it is not empty while the
\* load started by the constructor has not completed, and nothing else
\* writes the list
HostSupplied == loadPending /\ availableTemplates # << >>

\* C38: a non-empty list given to setTemplates is the list used by template
\* detection until the next setTemplates call; the load started by the
\* constructor, completing after the call, does not replace it.
C38_HostListKept ==
    [][(HostSupplied /\ availableTemplates' # availableTemplates) => SetTemplatesStep]_vars

\* once the load has completed, only setTemplates changes the list
C38_AfterLoad ==
    [][(~loadPending /\ availableTemplates' # availableTemplates) => SetTemplatesStep]_vars


\* ------------------------------------------------------------------------
\* C39: destroy() releases the controller
\* ------------------------------------------------------------------------

\* a recognizer event is handled while no recognizer is held: the event comes
\* from a recognizer released by destroy()
LateEvent == rec = 0 /\ rec' = 0 /\ op' \in { "onResult", "onError", "onEnd" }
                     /\ (nResults' # nResults \/ recs' # recs)

\* C39: after destroy() the events delivered late by the released recognizer
\* fire no host callback and change neither the transcript, the detected
\* fields, the dictation mode nor the note buffer, and the dictation mode is
\* never NoteTaking while no recognizer is held.
C39_DestroyReleases ==
    [][/\ LateEvent =>
             /\ out' = << >>
             /\ UNCHANGED << fullTranscript, detectedMRN, detectedTemplate,
                             noteMode, noteBuffer >>
       /\ rec' = 0 => ~noteMode']_vars

\* destroy() called with a recognizer held stops it, clears the listening
\* flag, ends an open note and releases the recognizer
C39_DestroyStops ==
    [][(Destroy /\ rec # 0) =>
          /\ rec' = 0
          /\ ~listening'
          /\ ~noteMode'
          /\ recCalls' = << << "stop", rec >> >>]_vars


\* ---------------------------------------------------------------------------
\* Session blob consistency
\* ---------------------------------------------------------------------------

\* The six operations that write a field and the merged session blob together.
FieldOps == { "saveMRN", "saveTemplate", "saveTranscript", "clearMRN", "clearTemplate",
              "clearAll" }

\* The field of the merged session blob, as getSessionData() returns it
\* (NULL when the blob or the field is absent).
BlobField(ls, field) == objGet(getSessionData(ls, { }).val, field)

\* The blob's mrn is what getMRN() returns and its template is what
\* getTemplate() returns: both absent, or both the same value.
BlobAgrees(ls) ==
    /\ BlobField(ls, "mrn") = getMRN(ls, { }).val
    /\ BlobField(ls, "template") = getTemplate(ls, { }).val

\* C40: after any sequence of saveMRN, saveTemplate, saveTranscript, clearMRN,
\* clearTemplate and clearAll in which storage does not fail, the mrn field of
\* the merged session blob equals the value getMRN() returns and the template
\* field equals the value getTemplate() returns (both absent or both the same
\* value), and clearing one field leaves the other stored fields as they were.
\* Stated as the step that carries the agreement from one operation of the
\* sequence to the next; the empty storage the sequence starts from agrees.
C40_BlobConsistent ==
    [][ (op' \in FieldOps /\ fault' = { } /\ BlobAgrees(localStorage))
        => /\ threw' = FALSE
           /\ BlobAgrees(localStorage')
           /\ op' = "clearMRN"
               => /\ Readback(localStorage')[1] = NULL
                  /\ Readback(localStorage')[2] = Readback(localStorage)[2]
                  /\ Readback(localStorage')[3] = Readback(localStorage)[3]
                  /\ BlobField(localStorage', "template")
                        = BlobField(localStorage, "template")
                  /\ BlobField(localStorage', "transcript")
                        = BlobField(localStorage, "transcript")
           /\ op' = "clearTemplate"
               => /\ Readback(localStorage')[2] = NULL
                  /\ Readback(localStorage')[1] = Readback(localStorage)[1]
                  /\ Readback(localStorage')[3] = Readback(localStorage)[3]
                  /\ BlobField(localStorage', "mrn") = BlobField(localStorage, "mrn")
                  /\ BlobField(localStorage', "transcript")
                        = BlobField(localStorage, "transcript") ]_vars

\* The storage before any operation agrees with its (absent) blob.
C40_EmptyAgrees == (op = "constructor") => BlobAgrees(localStorage)

\* clearMRN() has run without failure on a session that also holds a template
\* and a transcript: the MRN is gone from the key and from the blob, the
\* template and the transcript are still in both, next to the timestamp.
C40_Witness ==
    /\ op = "clearMRN"
    /\ fault = { }
    /\ localStorage[CURRENT_MRN] = NULL
    /\ BlobField(localStorage, "mrn") = NULL
    /\ localStorage[CURRENT_TEMPLATE] = u_SOAP_Note
    /\ BlobField(localStorage, "template") = u_SOAP_Note
    /\ localStorage[CURRENT_TRANSCRIPT] = s_patient
    /\ BlobField(localStorage, "transcript") = s_patient
    /\ Len(getSessionData(localStorage, { }).val) = 3

\* saveMRN() has run without failure after a clear: key and blob hold the
\* new MRN.
C40_WitnessSave ==
    /\ op = "saveMRN"
    /\ fault = { }
    /\ localStorage[CURRENT_MRN] = u_MRNAB7
    /\ BlobField(localStorage, "mrn") = u_MRNAB7
    /\ BlobField(localStorage, "template") = u_SOAP_Note

====
